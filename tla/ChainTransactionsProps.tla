------------------------ MODULE ChainTransactionsProps -------------------------
(***************************************************************************)
(* What the application promises about the chain, for every interleaving   *)
(* of the browser, the wallet, the chain and overlapping reconcilers.      *)
(***************************************************************************)
EXTENDS ChainTransactions

\* Type invariant, with the CHECK constraints and the unique index of
\* chain_transactions: a row that was submitted has a hash of its own and the
\* nonce that goes with it.
TypeOK ==
    /\ archived \in BOOLEAN
    /\ elapsed \subseteq Task
    /\ offchain \in [Task -> {"draft", "awaiting_chain", "open", "receipt_submitted"}]
    /\ chain \in [Task -> {"none", "open", "receipt_submitted"}]
    /\ chainTaskId \in [Task -> Hash \cup {NoHash}]
    /\ rows \in [Row -> RowRecord \cup {NoRow}]
    /\ nextRow \in 1..(MaxRows + 1)
    /\ \A i \in Row : Used(i) <=> i < nextRow
    /\ events \subseteq [hash: Hash, name: {"TaskCreated", "ReceiptSubmitted"}]
    /\ walletRequest \in [Row -> Request \cup {NoRequest}]
    /\ sent \in [Hash -> Sent \cup {NotSent}]
    /\ nextHash \in 1..(MaxHashes + 1)
    /\ \A h \in Hash : sent[h] # NotSent <=> h < nextHash
    /\ registry \in [Hash -> {"none", "open", "receipt_submitted", "settled"}]
    /\ work \in [Worker -> Context \cup {Idle}]
    /\ \A i \in Row :
          rows[i].status \in {"submitted", "unknown_reconcile", "confirmed",
                              "reverted", "replaced"} =>
              /\ rows[i].hash # NoHash
              /\ sent[rows[i].hash] # NotSent
              /\ rows[i].nonce = sent[rows[i].hash].nonce
              /\ \A j \in Row : rows[j].hash = rows[i].hash => j = i

TaskRows(t, intent) ==
    {i \in Row : rows[i].task = t /\ rows[i].intent = intent}

\* A task has at most one transaction of each kind that is pending or
\* confirmed, whatever intents, rejections and replacements came before.
OneLiveTransaction ==
    \A t \in Task, intent \in Intent :
        \A i, j \in TaskRows(t, intent) :
            rows[i].status \in Live /\ rows[j].status \in Live => i = j

\* The reward of a task is put in escrow once: at most one of all the
\* transactions ever broadcast for it creates a task on chain.
SingleEscrow ==
    \A g, h \in Hash :
        /\ sent[g].outcome = "success" /\ sent[g].call = "create_task"
        /\ sent[h].outcome = "success" /\ sent[h].call = "create_task"
        /\ sent[g].task = sent[h].task
        => g = h

\* ARCHITECTURE.md: the database is an operational index of the chain.  It may
\* lag behind, but it never shows what has not happened: an open task was
\* created, by the transaction its id names, a submitted receipt was accepted,
\* and what a row says of its transaction's end is true.
DatabaseFollowsChain ==
    /\ \A t \in Task :
          LET h == chainTaskId[t]
          IN  /\ chain[t] = "none" <=> h = NoHash
              /\ h # NoHash =>
                    /\ sent[h].outcome = "success"
                    /\ sent[h].call = "create_task" /\ sent[h].task = t
              /\ chain[t] = "receipt_submitted" =>
                    registry[h] \in {"receipt_submitted", "settled"}
    /\ \A i \in Row :
          /\ rows[i].status = "confirmed" =>
                /\ sent[rows[i].hash].outcome = "success"
                /\ sent[rows[i].hash].call = rows[i].intent
          /\ rows[i].status = "reverted" =>
                sent[rows[i].hash].outcome = "reverted"
          /\ rows[i].status = "rejected_by_user" =>
                \A h \in Hash : sent[h].outcome # "none" => sent[h].nonce # i

\* contract_events holds one event for each confirmed row, and no other.
EventsMatchConfirmed ==
    /\ \A i \in Row :
          rows[i].status = "confirmed" =>
              \E e \in events : e.hash = rows[i].hash
    /\ \A e \in events :
          \E i \in Row :
              /\ rows[i].status = "confirmed" /\ rows[i].hash = e.hash
              /\ e.name = IF rows[i].intent = "create_task"
                            THEN "TaskCreated" ELSE "ReceiptSubmitted"

\* What the interface shows of a task not yet on chain is explained by its
\* creation rows: awaiting_chain while one was neither rejected nor is missing.
AwaitingExplained ==
    \A t \in Task :
        chain[t] = "none" =>
            (offchain[t] = "awaiting_chain" <=>
                \E i \in TaskRows(t, "create_task") :
                    rows[i].status # "rejected_by_user")

\* A row that is confirmed, rejected, reverted or replaced stays so, even when
\* a reconciler that read it earlier comes back with another answer.
FinalIsFinal ==
    [][\A i \in Row : rows[i].status \in Final => rows'[i] = rows[i]]_vars

Rank(status) ==
    CASE status = "none" -> 0 [] status = "open" -> 1 [] OTHER -> 2

\* A task only moves forward on its index of the chain, one step at a time, and
\* its id on chain is set once.
TaskAdvances ==
    [][\A t \in Task :
          /\ Rank(chain'[t]) - Rank(chain[t]) \in {0, 1}
          /\ chainTaskId[t] # NoHash => chainTaskId'[t] = chainTaskId[t]]_vars
================================================================================
