-------------------------- MODULE ReconciliationQueue --------------------------
(***************************************************************************)
(* The scheduled reconciliation job (apps/web/src/server/                  *)
(* reconciliation-job.ts) and the queue it works from:                     *)
(* listPendingReconciliationTransactions gives the rows of                 *)
(* chain_transactions that await an outcome, oldest update first, at most  *)
(* Limit of them.  Only the order of the updates matters here, so the      *)
(* pending rows are a sequence, and an update moves a row to its end.      *)
(* What a reconciliation decides is in ChainTransactions; here it is what  *)
(* the chain has in store for the row.                                     *)
(***************************************************************************)
EXTENDS Naturals, Sequences, SequencesExt

CONSTANTS
    Tx,             \* the transactions that come to be submitted
    Stuck,          \* those that stay pending: the chain never has a receipt for
                    \* them, or getReconciliationContext always returns null
    Requested,      \* those whose user may ask for their reconciliation
    Limit,          \* rows a run takes on
    MaxAborts       \* bound: runs cut off

ASSUME LimitAssumption == Limit \in Nat \ {0} /\ MaxAborts \in Nat
ASSUME FateAssumption ==
    Stuck \subseteq Tx /\ Requested \subseteq Tx

VARIABLES
    queue,          \* the pending rows, by updatedAt
    failureCode,    \* by row; "null" before the row is marked unknown
    status,         \* by row: chain_transactions.status
    mined,          \* the transactions the chain has a receipt for
    batch,          \* the rows the current run has yet to visit
    aborts          \* runs cut off so far

vars == <<queue, failureCode, status, mined, batch, aborts>>

Code == {"RPC_UNAVAILABLE", "RECEIPT_PENDING"}

Init ==
    /\ queue = <<>>
    /\ failureCode = [x \in Tx |-> "null"]
    /\ status = [x \in Tx |-> "wallet_requested"]
    /\ mined = {}
    /\ batch = <<>>
    /\ aborts = 0

\* recordWalletOutcome stores the hash: the row is eligible from now on.
submit(x) ==
    /\ status[x] = "wallet_requested"
    /\ status' = [status EXCEPT ![x] = "submitted"]
    /\ queue' = Append(queue, x)
    /\ UNCHANGED <<failureCode, mined, batch, aborts>>

mine(x) ==
    /\ status[x] # "wallet_requested"
    /\ x \notin Stuck
    /\ mined' = mined \cup {x}
    /\ UNCHANGED <<queue, failureCode, status, batch, aborts>>

\* listPendingReconciliationTransactions(Limit), read once for the whole run.
startRun ==
    /\ batch = <<>>
    /\ queue # <<>>
    /\ batch' = SubSeq(queue, 1, IF Len(queue) < Limit THEN Len(queue) ELSE Limit)
    /\ UNCHANGED <<queue, failureCode, status, mined, aborts>>

\* Mutant: only submitted rows are eligible.
MPending(x) == status[x] = "submitted"

Pending(x) == status[x] \in {"submitted", "unknown_reconcile"}

\* The queue without the row x that is in it.
Without(x) == RemoveAt(queue, CHOOSE i \in DOMAIN queue : queue[i] = x)

Touched(x) == Append(Without(x), x)

\* A row already unknown for the same reason is left alone, updatedAt included.
markTransactionUnknown(x, code) ==
    /\ Pending(x)
    /\ IF status[x] = "unknown_reconcile" /\ failureCode[x] = code
         THEN UNCHANGED <<queue, failureCode, status>>
         ELSE /\ status' = [status EXCEPT ![x] = "unknown_reconcile"]
              /\ failureCode' = [failureCode EXCEPT ![x] = code]
              /\ queue' = Touched(x)

\* Confirmed or reverted: either way the row leaves the queue.
resolve(x) ==
    /\ Pending(x)
    /\ x \in mined
    /\ status' = [status EXCEPT ![x] = "resolved"]
    /\ queue' = Without(x)
    /\ UNCHANGED failureCode

\* What a reconciler may do with row x, the RPC node answering as it likes.
reconcile(x) ==
    /\ Pending(x)
    /\ \/ \E code \in Code : markTransactionUnknown(x, code)
       \/ resolve(x)

\* Mutant: one row that fails ends the run.
Mskip(x) ==
    /\ batch' = <<>>
    /\ UNCHANGED <<queue, failureCode, status, mined>>

\* The row has no context, or its reconciliation throws: the run goes on.
skip(x) ==
    /\ batch' = Tail(batch)
    /\ UNCHANGED <<queue, failureCode, status, mined>>

visitNext ==
    /\ batch # <<>>
    /\ UNCHANGED aborts
    /\ LET x == Head(batch)
       IN  \/ reconcile(x) /\ batch' = Tail(batch) /\ UNCHANGED mined
           \/ skip(x)

\* The user asks for the reconciliation of one transaction.
reconcileOnRequest(x) ==
    /\ reconcile(x)
    /\ UNCHANGED <<mined, batch, aborts>>

\* The function is cut off by its time limit.
abortRun ==
    /\ batch # <<>>
    /\ aborts < MaxAborts
    /\ aborts' = aborts + 1
    /\ batch' = <<>>
    /\ UNCHANGED <<queue, failureCode, status, mined>>

Next ==
    \/ \E x \in Tx : submit(x)
    \/ \E x \in Tx : mine(x)
    \/ startRun
    \/ visitNext
    \/ \E x \in Requested : reconcileOnRequest(x)
    \/ abortRun

Spec == Init /\ [][Next]_vars
================================================================================
