------------------------------- MODULE TaskIntents ------------------------------
(***************************************************************************)
(* How an owner sends the drafts of ProjectPolicies to the chain, as far   *)
(* as idempotency keys go: intents, what the wallet did with them, and     *)
(* replacements (task-chain-repository.ts and task-handlers.ts).           *)
(*                                                                         *)
(* A request arrives any number of times.  An intent is asked for in two   *)
(* steps: the handler looks at the task without a lock, and only then does *)
(* the transaction look the key up.  An answer with the wallet's request   *)
(* is given when the transaction has taken effect, one without it when it  *)
(* is replayed.  What becomes of a transaction, and deadlines, are in      *)
(* ChainTransactions.                                                      *)
(***************************************************************************)
EXTENDS ProjectPoliciesProps

CONSTANT NoTransaction

VARIABLES
    offchain,               \* by project and key: tasks.offchain_status
    chain_transactions,     \* by key
    admitted                \* the requests for an intent that the handler let through

chain == <<offchain, chain_transactions, admitted>>

ChainRow == [project : Project, task : TaskKey,
             status : {"wallet_requested", "submitted", "rejected_by_user", "replaced"}]

ASSUME TransactionAssumption == NoTransaction \notin ChainRow

IntentInit ==
    /\ Init
    /\ offchain = [p \in Project |-> [k \in TaskKey |-> "draft"]]
    /\ chain_transactions = [i \in IntentKey |-> NoTransaction]
    /\ admitted = {}
--------------------------------------------------------------------------------
(* Intents. *)

admit(p, k, i) ==
    /\ tasks[p][k] # NoTask
    /\ offchain[p][k] = "draft"
    /\ admitted' = admitted \cup {<<p, k, i>>}
    /\ UNCHANGED <<vars, offchain, chain_transactions>>

chainView(i, status) == [transaction |-> i, txStatus |-> status]

\* Mutant: a key is free again once the wallet has rejected what it asked for.
MTakesKey(i) ==
    IF chain_transactions[i] = NoTransaction
      THEN reserve(<<"chain_intent_create", i>>)
      ELSE chain_transactions[i].status = "rejected_by_user"

\* The row is inserted; chain_tx_user_intent_key_unique keeps the key for good.
TakesKey(i) == reserve(<<"chain_intent_create", i>>)

\* The transaction itself is the reservation: it holds the hash of the request
\* and the answer.
createChainIntent(p, k, i) ==
    LET s       == <<"chain_intent_create", i>>
        request == [project |-> p, task |-> k]
    IN  /\ <<p, k, i>> \in admitted
        /\ \/ /\ TakesKey(i)
              /\ Accepts(p)
              /\ offchain[p][k] = "draft"
              /\ chain_transactions' = [chain_transactions EXCEPT ![i] =
                     [project |-> p, task |-> k, status |-> "wallet_requested"]]
              /\ offchain' = [offchain EXCEPT ![p][k] = "awaiting_chain"]
              /\ completeReservation(s, request, chainView(i, "wallet_requested"), 1)
           \/ /\ Replays(s, request) /\ Replay(s, reservations[s].response)
              /\ UNCHANGED <<offchain, chain_transactions>>
        /\ UNCHANGED <<projects, policies, tasks, calls, admitted>>
--------------------------------------------------------------------------------
(* What the wallet did. *)

Operation(status) == IF status = "submitted" THEN "chain_submitted" ELSE "chain_rejected_by_user"

\* The stored answer, not the row as it is.
replayChain(s) == reservations[s].response

recordWalletOutcome(i, o, status) ==
    LET s       == <<Operation(status), o>>
        request == [transaction |-> i]
        row     == chain_transactions[i]
    IN  /\ row # NoTransaction
        /\ \/ /\ reserve(s)
              /\ row.status = "wallet_requested"
              /\ chain_transactions' = [chain_transactions EXCEPT ![i].status = status]
              /\ offchain' = IF status = "rejected_by_user"
                               THEN [offchain EXCEPT ![row.project][row.task] = "draft"]
                               ELSE offchain
              /\ completeReservation(s, request, chainView(i, status), 1)
           \/ /\ Replays(s, request) /\ Replay(s, replayChain(s))
              /\ UNCHANGED <<offchain, chain_transactions>>
        /\ UNCHANGED <<projects, policies, tasks, calls, admitted>>

\* A replay also finds the replaced transaction replaced.
replayReplacement(s, request) ==
    Replays(s, request) /\ chain_transactions[request.transaction].status = "replaced"

\* The replacement of i is a transaction under key j, among the same keys as the
\* intents.
recordReplacement(i, j) ==
    LET s       == <<"chain_intent_create", j>>
        request == [transaction |-> i]
        row     == chain_transactions[i]
    IN  /\ row # NoTransaction
        /\ \/ /\ reserve(s)
              /\ row.status = "submitted"
              /\ chain_transactions' = [chain_transactions EXCEPT ![i].status = "replaced",
                                                                  ![j] = row]
              /\ completeReservation(s, request, chainView(j, "submitted"), 1)
           \/ /\ replayReplacement(s, request)
              /\ Replay(s, replayChain(s))
              /\ UNCHANGED chain_transactions
        /\ UNCHANGED <<projects, policies, tasks, calls, offchain, admitted>>
--------------------------------------------------------------------------------
IntentNext ==
    \/ Next /\ UNCHANGED chain
    \/ \E p \in Project, k \in TaskKey, i \in IntentKey : admit(p, k, i) \/ createChainIntent(p, k, i)
    \/ \E i \in IntentKey, o \in OutcomeKey, status \in {"submitted", "rejected_by_user"} :
           recordWalletOutcome(i, o, status)
    \/ \E i, j \in IntentKey : recordReplacement(i, j)

allVars == <<vars, chain>>

IntentSpec == IntentInit /\ [][IntentNext]_allVars
--------------------------------------------------------------------------------
\* Every variable holds what its columns can hold; a request that was let through
\* is for a task that was drafted, and so is a transaction, under a key that is
\* taken (createChainIntent, recordReplacement).
IntentTypeOK ==
    /\ TypeOK
    /\ offchain \in [Project -> [TaskKey -> {"draft", "awaiting_chain"}]]
    /\ chain_transactions \in [IntentKey -> ChainRow \cup {NoTransaction}]
    /\ admitted \subseteq Project \X TaskKey \X IntentKey
    /\ \A p \in Project, k \in TaskKey, i \in IntentKey :
           <<p, k, i>> \in admitted => tasks[p][k] # NoTask
    /\ \A i \in IntentKey :
           chain_transactions[i] # NoTransaction =>
               /\ reservations[<<"chain_intent_create", i>>] # Free
               /\ tasks[chain_transactions[i].project][chain_transactions[i].task] # NoTask
================================================================================
