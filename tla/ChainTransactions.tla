--------------------------- MODULE ChainTransactions ---------------------------
(***************************************************************************)
(* How the application follows its tasks onto the chain                    *)
(* (packages/db/src/task-chain-repository.ts and the reconcilers of        *)
(* apps/web/src/server).  An intent is recorded in the database before the *)
(* wallet is asked; the wallet broadcasts, or not; the browser reports     *)
(* what the wallet did, or closes; and reconcilers, the cron job and the   *)
(* API endpoints, read a row, ask the RPC node, and write what they learnt *)
(* only later, when others may have written.                               *)
(*                                                                         *)
(* A method of the repository is one database transaction that locks the   *)
(* rows it decides on, hence one step.  A call it refuses changes nothing: *)
(* it is no step.  Nor is a replayed request (same idempotency key).       *)
(***************************************************************************)
EXTENDS Integers, FiniteSets

CONSTANTS
    Task,           \* the tasks of one project, created as drafts
    SelfAssigned,   \* those whose assignee is the project's owner
    Worker,         \* the runs of a reconciler that may overlap
    Cron,           \* the scheduled one among them
    NoTask,
    MaxRows,        \* bound: rows of chain_transactions
    MaxHashes       \* bound: transactions broadcast

ASSUME TaskAssumption == SelfAssigned \subseteq Task /\ NoTask \notin Task
ASSUME WorkerAssumption == Cron \in Worker
ASSUME BoundAssumption == MaxRows \in Nat /\ MaxHashes \in Nat

VARIABLES
    archived,       \* projects.status = 'archived'
    elapsed,        \* the tasks whose deadline has passed
    offchain, chain, chainTaskId,       \* by task: columns of tasks
    rows, nextRow,  \* chain_transactions
    events,         \* contract_events
    walletRequest,  \* by row: the request the browser passed to the wallet
    sent, nextHash, \* by hash: the transactions broadcast, and their outcome
    registry,       \* by creating hash: the status of the on-chain task
    work            \* by worker: the reconciliation it is in the middle of

taskTable == <<offchain, chain, chainTaskId>>
database  == <<archived, taskTable, rows, nextRow, events>>
world     == <<elapsed, walletRequest, sent, nextHash, registry>>
vars      == <<database, world, work>>

Row  == 1..MaxRows
Hash == 1..MaxHashes
NoHash  == 0
NoNonce == 0

Intent == {"create_task", "submit_receipt"}
Live   == {"wallet_requested", "submitted", "unknown_reconcile", "confirmed"}
Final  == {"confirmed", "rejected_by_user", "reverted", "replaced"}
Status == Live \cup Final

\* A nonce is named after the row whose wallet request used it.
RowRecord == [intent: Intent, task: Task, status: Status,
              hash: Hash \cup {NoHash}, nonce: Row \cup {NoNonce},
              attested: BOOLEAN]    \* it has a row in receipt_attestations

NoRow == [intent |-> "none", task |-> NoTask, status |-> "none",
          hash |-> NoHash, nonce |-> NoNonce, attested |-> FALSE]

\* A deployed task is known by the transaction that created it, as by its id.
Request == [call: Intent, task: Task, target: Hash \cup {NoHash},
            state: {"shown", "rejected", "sent"}]

NoRequest == [state |-> "none"]

Sent == [call: Intent \cup {"cancel"}, task: Task, target: Hash \cup {NoHash},
         nonce: Row, outcome: {"pending", "success", "reverted"}]

NotSent == [outcome |-> "none"]

Answer == {"none", "unavailable", "null", "success", "reverted"}

Context == [row: Row, kind: Intent, expectedStatus: {"submitted", "unknown_reconcile"},
            target: Hash \cup {NoHash}, hash: Hash, answer: Answer]

Idle == [answer |-> "idle"]

Used(i) == rows[i].status # "none"

\* requireTransactionOwner: the row's user is the owner of the project.  The
\* user of a receipt intent is the task's assignee.
OwnedByProjectOwner(i) ==
    rows[i].intent = "create_task" \/ rows[i].task \in SelfAssigned

HashFree(h) == \A i \in Row : rows[i].hash # h    \* chain_transactions_hash_unique

Mined(h) == sent[h].outcome \in {"success", "reverted"}

Init ==
    /\ archived = FALSE
    /\ elapsed = {}
    /\ offchain = [t \in Task |-> "draft"]
    /\ chain = [t \in Task |-> "none"]
    /\ chainTaskId = [t \in Task |-> NoHash]
    /\ rows = [i \in Row |-> NoRow]
    /\ nextRow = 1
    /\ events = {}
    /\ walletRequest = [i \in Row |-> NoRequest]
    /\ sent = [h \in Hash |-> NotSent]
    /\ nextHash = 1
    /\ registry = [h \in Hash |-> "none"]
    /\ work = [w \in Worker |-> Idle]
--------------------------------------------------------------------------------
(* The repository, called by the task and receipt handlers. *)

InsertRow(row) ==
    /\ nextRow <= MaxRows
    /\ rows' = [rows EXCEPT ![nextRow] = row]
    /\ nextRow' = nextRow + 1

\* The response with the wallet request reaches the browser, or is lost.
Respond(request, delivered) ==
    walletRequest' = IF delivered
                       THEN [walletRequest EXCEPT ![nextRow] = request]
                       ELSE walletRequest

\* Mutants: one of the two conditions is forgotten.
MEligibleOffchain(t) == offchain[t] = "draft"
MEligibleOnChain(t) == chain[t] = "none"

CreationEligible(t) == offchain[t] = "draft" /\ chain[t] = "none"

createChainIntent(t, delivered) ==
    /\ ~archived
    /\ CreationEligible(t)
    /\ t \notin elapsed
    /\ InsertRow([NoRow EXCEPT !.intent = "create_task", !.task = t,
                               !.status = "wallet_requested"])
    /\ offchain' = [offchain EXCEPT ![t] = "awaiting_chain"]
    /\ Respond([call |-> "create_task", task |-> t, target |-> NoHash,
                state |-> "shown"], delivered)
    /\ UNCHANGED <<archived, chain, chainTaskId, events, elapsed, sent, nextHash,
                   registry, work>>

\* Mutant: only a transaction already submitted stands in the way of another.
MReceiptEligible(t) ==
    /\ offchain[t] = "open" /\ chain[t] = "open"
    /\ \A i \in Row :
          rows[i].intent = "submit_receipt" /\ rows[i].task = t =>
              rows[i].status \notin {"submitted", "unknown_reconcile", "confirmed"}

ReceiptEligible(t) ==
    /\ offchain[t] = "open" /\ chain[t] = "open"
    /\ \A i \in Row :
          rows[i].intent = "submit_receipt" /\ rows[i].task = t =>
              rows[i].status \in {"rejected_by_user", "reverted"}

\* The evidence the receipt rests on is outside this module: a passing bundle
\* is at hand, and its attestation is stored with the row.
createReceiptChainIntent(t, delivered) ==
    /\ ~archived
    /\ ReceiptEligible(t)
    /\ t \notin elapsed
    /\ InsertRow([NoRow EXCEPT !.intent = "submit_receipt", !.task = t,
                               !.status = "wallet_requested", !.attested = TRUE])
    /\ Respond([call |-> "submit_receipt", task |-> t, target |-> chainTaskId[t],
                state |-> "shown"], delivered)
    /\ UNCHANGED <<archived, taskTable, events, elapsed, sent, nextHash,
                   registry, work>>

\* Mutant: the task is not returned to its drafts.
MrecordRejected(i) ==
    /\ walletRequest[i].state = "rejected"
    /\ OwnedByProjectOwner(i)
    /\ rows[i].status = "wallet_requested"
    /\ rows' = [rows EXCEPT ![i].status = "rejected_by_user"]
    /\ UNCHANGED <<archived, taskTable, nextRow, events, world, work>>

\* recordWalletOutcome, status rejected_by_user.  (No row is ever 'prepared', so
\* its status wallet_requested always conflicts.)
recordRejected(i) ==
    /\ walletRequest[i].state = "rejected"
    /\ OwnedByProjectOwner(i)
    /\ rows[i].status = "wallet_requested"
    /\ rows' = [rows EXCEPT ![i].status = "rejected_by_user"]
    /\ offchain' = [offchain EXCEPT ![rows[i].task] = "draft"]
    /\ UNCHANGED <<archived, chain, chainTaskId, nextRow, events, world, work>>

\* Mutant: the nonce is not stored.
MrecordSubmitted(i, h) ==
    /\ sent[h].outcome # "none" /\ sent[h].nonce = i /\ sent[h].call = rows[i].intent
    /\ OwnedByProjectOwner(i)
    /\ rows[i].status = "wallet_requested"
    /\ HashFree(h)
    /\ rows' = [rows EXCEPT ![i].status = "submitted", ![i].hash = h]
    /\ UNCHANGED <<archived, taskTable, nextRow, events, world, work>>

\* recordWalletOutcome, status submitted.
recordSubmitted(i, h) ==
    /\ sent[h].outcome # "none" /\ sent[h].nonce = i /\ sent[h].call = rows[i].intent
    /\ OwnedByProjectOwner(i)
    /\ rows[i].status = "wallet_requested"
    /\ HashFree(h)
    /\ rows' = [rows EXCEPT ![i].status = "submitted", ![i].hash = h,
                            ![i].nonce = sent[h].nonce]
    /\ UNCHANGED <<archived, taskTable, nextRow, events, world, work>>

\* Mutant: a confirmed transaction can be replaced.
MReplaceable(i) == rows[i].status \in {"submitted", "unknown_reconcile", "confirmed"}

Replaceable(i) == rows[i].status \in {"submitted", "unknown_reconcile"}

\* The row of the replacement has no attestation, whatever its intent.
recordReplacement(i, h) ==
    /\ sent[h].outcome # "none" /\ sent[h].nonce = rows[i].nonce
    /\ OwnedByProjectOwner(i)
    /\ Replaceable(i)
    /\ rows[i].hash # h
    /\ HashFree(h)
    /\ nextRow <= MaxRows
    /\ rows' = [rows EXCEPT
                  ![nextRow] = [rows[i] EXCEPT !.status = "submitted", !.hash = h,
                                               !.attested = FALSE],
                  ![i].status = "replaced"]
    /\ nextRow' = nextRow + 1
    /\ UNCHANGED <<archived, taskTable, events, world, work>>

\* updateProject archives a project, or brings it back.
updateProject ==
    /\ archived' = ~archived
    /\ UNCHANGED <<taskTable, rows, nextRow, events, world, work>>
--------------------------------------------------------------------------------
(* The reconcilers. *)

\* Mutant: a transaction once unknown is not looked at again.
MPending(i) == rows[i].status = "submitted"

Pending(i) == rows[i].status \in {"submitted", "unknown_reconcile"}

\* Not null: the actor is the row's user and, for a creation, the project's
\* owner; for a receipt, the row has an attestation and its task an id.  Only
\* the cron job picks the reconciler by the intent of the row.
getReconciliationContext(w, i, kind) ==
    /\ work[w] = Idle
    /\ Pending(i)
    /\ w = Cron => rows[i].intent = kind
    /\ kind = "create_task" => OwnedByProjectOwner(i)
    /\ kind = "submit_receipt" =>
          /\ rows[i].intent = "submit_receipt" /\ rows[i].attested
          /\ chainTaskId[rows[i].task] # NoHash
    /\ work' = [work EXCEPT ![w] =
                  [row |-> i, kind |-> kind, expectedStatus |-> rows[i].status,
                   target |-> chainTaskId[rows[i].task], hash |-> rows[i].hash,
                   answer |-> "none"]]
    /\ UNCHANGED <<database, world>>

\* The RPC node fails, does not know the transaction, or has its receipt.
getReceipt(w, answer) ==
    /\ work[w].answer = "none"
    /\ \/ answer \in {"unavailable", "null"}
       \/ Mined(work[w].hash) /\ answer = sent[work[w].hash].outcome
    /\ work' = [work EXCEPT ![w].answer = answer]
    /\ UNCHANGED <<database, world>>

\* The receipt holds one event, and it is the one the row is about.
EventMatches(c) ==
    LET tx == sent[c.hash]
    IN  /\ tx.call = c.kind
        /\ c.kind = "create_task" => tx.task = rows[c.row].task
        /\ c.kind = "submit_receipt" => tx.target = c.target

\* Mutant: any receipt of a success confirms.
MConfirms(c) == c.answer = "success"

Confirms(c) == c.answer = "success" /\ EventMatches(c)

Inconclusive(c) ==
    \/ c.answer \in {"unavailable", "null"}
    \/ c.answer = "success" /\ ~EventMatches(c)

\* Mutant: the row is not compared with what was read.
MStillExpected(c) == TRUE

StillExpected(c) == rows[c.row].status = c.expectedStatus

Done(w) == work' = [work EXCEPT ![w] = Idle]

markTransactionUnknown(w) ==
    LET c == work[w]
    IN  /\ Inconclusive(c)
        /\ StillExpected(c)
        /\ rows' = [rows EXCEPT ![c.row].status = "unknown_reconcile"]
        /\ Done(w)
        /\ UNCHANGED <<archived, taskTable, nextRow, events, world>>

\* The task is left as it is.
markTransactionReverted(w) ==
    LET c == work[w]
    IN  /\ c.answer = "reverted"
        /\ StillExpected(c)
        /\ rows' = [rows EXCEPT ![c.row].status = "reverted"]
        /\ Done(w)
        /\ UNCHANGED <<archived, taskTable, nextRow, events, world>>

Event(h, name) == [hash |-> h, name |-> name]

NotIndexed(h) == \A e \in events : e.hash # h   \* contract_events_chain_tx_log_unique

confirmTaskCreatedFromReconciliation(w) ==
    LET c == work[w]
        t == rows[c.row].task
        h == rows[c.row].hash
    IN  /\ Confirms(c) /\ c.kind = "create_task"
        /\ StillExpected(c)
        /\ NotIndexed(h)
        /\ events' = events \cup {Event(h, "TaskCreated")}
        /\ rows' = [rows EXCEPT ![c.row].status = "confirmed"]
        /\ chainTaskId' = [chainTaskId EXCEPT ![t] = c.hash]
        /\ offchain' = [offchain EXCEPT ![t] = "open"]
        /\ chain' = [chain EXCEPT ![t] = "open"]
        /\ Done(w)
        /\ UNCHANGED <<archived, nextRow, world>>

confirmReceiptSubmittedFromReconciliation(w) ==
    LET c == work[w]
        t == rows[c.row].task
        h == rows[c.row].hash
    IN  /\ Confirms(c) /\ c.kind = "submit_receipt"
        /\ StillExpected(c)
        /\ NotIndexed(h)
        /\ events' = events \cup {Event(h, "ReceiptSubmitted")}
        /\ rows' = [rows EXCEPT ![c.row].status = "confirmed"]
        /\ offchain' = [offchain EXCEPT ![t] = "receipt_submitted"]
        /\ chain' = [chain EXCEPT ![t] = "receipt_submitted"]
        /\ Done(w)
        /\ UNCHANGED <<archived, chainTaskId, nextRow, world>>

\* The update is refused because the row has changed, or has nothing to change;
\* or the worker's process ends.
stopReconciling(w) ==
    /\ work[w] # Idle
    /\ Done(w)
    /\ UNCHANGED <<database, world>>
--------------------------------------------------------------------------------
(* Outside the application: the user and the wallet, time, and the chain. *)

walletRejects(i) ==
    /\ walletRequest[i].state = "shown"
    /\ walletRequest' = [walletRequest EXCEPT ![i].state = "rejected"]
    /\ UNCHANGED <<database, elapsed, sent, nextHash, registry, work>>

Broadcast(call, task, target, nonce) ==
    /\ nextHash <= MaxHashes
    /\ sent' = [sent EXCEPT ![nextHash] =
                  [call |-> call, task |-> task, target |-> target,
                   nonce |-> nonce, outcome |-> "pending"]]
    /\ nextHash' = nextHash + 1

walletBroadcasts(i) ==
    LET r == walletRequest[i]
    IN  /\ r.state = "shown"
        /\ Broadcast(r.call, r.task, r.target, i)
        /\ walletRequest' = [walletRequest EXCEPT ![i].state = "sent"]
        /\ UNCHANGED <<database, elapsed, registry, work>>

NonceUsed(i) == \E h \in Hash : Mined(h) /\ sent[h].nonce = i

\* The user speeds a pending transaction up, or cancels it: the same nonce.
walletReplaces(i, call) ==
    LET r == walletRequest[i]
    IN  /\ r.state = "sent"
        /\ call \in {r.call, "cancel"}
        /\ ~NonceUsed(i)
        /\ Broadcast(call, r.task, r.target, i)
        /\ UNCHANGED <<database, elapsed, walletRequest, registry, work>>

\* A transaction is mined when no other with its nonce is.
CanMine(h) == sent[h].outcome = "pending" /\ ~NonceUsed(sent[h].nonce)

mineCreation(h) ==
    /\ CanMine(h) /\ sent[h].call = "create_task"
    /\ sent[h].task \notin elapsed
    /\ sent' = [sent EXCEPT ![h].outcome = "success"]
    /\ registry' = [registry EXCEPT ![h] = "open"]
    /\ UNCHANGED <<database, elapsed, walletRequest, nextHash, work>>

mineReceipt(h) ==
    /\ CanMine(h) /\ sent[h].call = "submit_receipt"
    /\ sent[h].task \notin elapsed
    /\ sent[h].target # NoHash /\ registry[sent[h].target] = "open"
    /\ sent' = [sent EXCEPT ![h].outcome = "success"]
    /\ registry' = [registry EXCEPT ![sent[h].target] = "receipt_submitted"]
    /\ UNCHANGED <<database, elapsed, walletRequest, nextHash, work>>

mineCancel(h) ==
    /\ CanMine(h) /\ sent[h].call = "cancel"
    /\ sent' = [sent EXCEPT ![h].outcome = "success"]
    /\ UNCHANGED <<database, elapsed, walletRequest, nextHash, registry, work>>

revert(h) ==
    /\ CanMine(h) /\ sent[h].call # "cancel"
    /\ sent' = [sent EXCEPT ![h].outcome = "reverted"]
    /\ UNCHANGED <<database, elapsed, walletRequest, nextHash, registry, work>>

\* The parties settle on chain: approve, reject, cancel, expire.
settle(h) ==
    /\ registry[h] \in {"open", "receipt_submitted"}
    /\ registry' = [registry EXCEPT ![h] = "settled"]
    /\ UNCHANGED <<database, elapsed, walletRequest, sent, nextHash, work>>

deadlinePasses(t) ==
    /\ elapsed' = elapsed \cup {t}
    /\ UNCHANGED <<database, walletRequest, sent, nextHash, registry, work>>

Next ==
    \/ \E t \in Task, delivered \in BOOLEAN : createChainIntent(t, delivered)
    \/ \E t \in Task, delivered \in BOOLEAN : createReceiptChainIntent(t, delivered)
    \/ \E i \in Row : recordRejected(i)
    \/ \E i \in Row, h \in Hash : recordSubmitted(i, h)
    \/ \E i \in Row, h \in Hash : recordReplacement(i, h)
    \/ updateProject
    \/ \E w \in Worker, i \in Row, kind \in Intent : getReconciliationContext(w, i, kind)
    \/ \E w \in Worker, answer \in Answer : getReceipt(w, answer)
    \/ \E w \in Worker : markTransactionUnknown(w)
    \/ \E w \in Worker : markTransactionReverted(w)
    \/ \E w \in Worker : confirmTaskCreatedFromReconciliation(w)
    \/ \E w \in Worker : confirmReceiptSubmittedFromReconciliation(w)
    \/ \E w \in Worker : stopReconciling(w)
    \/ \E i \in Row : walletRejects(i)
    \/ \E i \in Row : walletBroadcasts(i)
    \/ \E i \in Row, call \in Intent \cup {"cancel"} : walletReplaces(i, call)
    \/ \E h \in Hash : mineCreation(h)
    \/ \E h \in Hash : mineReceipt(h)
    \/ \E h \in Hash : mineCancel(h)
    \/ \E h \in Hash : revert(h)
    \/ \E h \in Hash : settle(h)
    \/ \E t \in Task : deadlinePasses(t)

Spec == Init /\ [][Next]_vars
================================================================================
