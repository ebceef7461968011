--------------------------- MODULE DoneBondRegistry ---------------------------
(***************************************************************************)
(* The settlement contract (packages/contracts/src/DoneBondRegistry.sol):  *)
(* task commitments, verifier-attested receipts, the escrow of native      *)
(* rewards and their withdrawal.                                           *)
(*                                                                         *)
(* A transaction is one step, except a withdrawal.  withdraw() hands       *)
(* control to the receiver in the middle of its body, and a receiver that  *)
(* is a contract may call the registry again, or fail, which undoes the    *)
(* withdrawal with everything done inside it.  So a withdrawal is the step *)
(* withdraw, any number of nested calls, and the step withdrawReturns or   *)
(* withdrawFails.  A call that reverts changes nothing: it is no step.     *)
(***************************************************************************)
EXTENDS Integers, FiniteSets, CoinSums

CONSTANTS
    Account,        \* the addresses that use the registry
    Contracts,      \* those that run code when they are paid
    NoAccount,      \* address(0)
    TaskHash, PolicyHash, EvidenceHash, CommitHash, ReasonHash,
    NoHash,         \* bytes32(0)
    RewardMax,      \* type(uint96).max
    MaxTasks,       \* bound: tasks created
    MaxTime,        \* bound: last block timestamp
    MaxSigned,      \* bound: attestations the verifier signs
    MaxForced       \* bound: native currency forced into the contract

ASSUME AddressAssumption ==
    /\ Contracts \subseteq Account
    /\ NoAccount \notin Account

ASSUME HashAssumption ==
    NoHash \notin TaskHash \cup PolicyHash \cup EvidenceHash
                           \cup CommitHash \cup ReasonHash

ASSUME BoundAssumption ==
    /\ RewardMax \in Nat
    /\ MaxTasks \in Nat
    /\ MaxTime \in Nat
    /\ MaxSigned \in Nat
    /\ MaxForced \in Nat

VARIABLES
    nextTaskId, tasks, withdrawable, usedAttestations,
    totalLockedRewards, totalWithdrawable,      \* the contract's storage
    balance,        \* address(this).balance
    now,            \* block.timestamp
    deposit,        \* by task: the reward its TaskCreated event carries
    receiptAt,      \* by task: the timestamp of its ReceiptSubmitted event
    paid,           \* by account: what withdraw() has transferred to it
    forced,         \* currency received without a call of createTask
    signed,         \* the attestations the verifier has signed
    call            \* the transfer in progress, NotCalling outside one

storage == <<nextTaskId, tasks, withdrawable, usedAttestations,
             totalLockedRewards, totalWithdrawable>>
events  == <<deposit, receiptAt, paid, forced>>
vars    == <<storage, balance, events, now, signed, call>>

TaskId == 1..MaxTasks
Time   == 1..MaxTime

Terminal == {"Approved", "Rejected", "Cancelled", "Expired"}
Active   == {"Open", "ReceiptSubmitted"}

CreatedTask ==
    [creator: Account, deadline: Nat, status: Active \cup Terminal,
     assignee: Account, reward: 0..RewardMax, taskHash: TaskHash,
     policyHash: PolicyHash, evidenceHash: EvidenceHash \cup {NoHash},
     commitHash: CommitHash \cup {NoHash}]

\* The zero value of an entry of the mapping.
NoTask == [creator |-> NoAccount, deadline |-> 0, status |-> "None",
           assignee |-> NoAccount, reward |-> 0, taskHash |-> NoHash,
           policyHash |-> NoHash, evidenceHash |-> NoHash, commitHash |-> NoHash]

Task == CreatedTask \cup {NoTask}

\* The EIP-712 digest is one to one in what it binds, so it is that record.
Attestation == [taskId: TaskId, taskHash: TaskHash, policyHash: PolicyHash,
                assignee: Account, evidenceHash: EvidenceHash,
                commitHash: CommitHash, attestationExpiry: Time]

receiptAttestationDigest(t, evidence, commit, expiry) ==
    [taskId |-> t, taskHash |-> tasks[t].taskHash,
     policyHash |-> tasks[t].policyHash, assignee |-> tasks[t].assignee,
     evidenceHash |-> evidence, commitHash |-> commit,
     attestationExpiry |-> expiry]

\* What a failing transfer restores: every effect of the transaction.
Snapshot == [nextTaskId |-> nextTaskId, tasks |-> tasks,
             withdrawable |-> withdrawable, usedAttestations |-> usedAttestations,
             totalLockedRewards |-> totalLockedRewards,
             totalWithdrawable |-> totalWithdrawable, balance |-> balance,
             deposit |-> deposit, receiptAt |-> receiptAt, paid |-> paid,
             forced |-> forced]

NotCalling == [receiver |-> NoAccount]

\* Outside a transfer every account can send a transaction.  Inside one only
\* code runs: the receiver's, if it has any, and that of the contracts it calls.
CanCall(sender) ==
    call # NotCalling => sender \in Contracts /\ call.receiver \in Contracts

Exists(t) == tasks[t].status # "None"       \* _task(taskId) does not revert

Init ==
    /\ nextTaskId = 1
    /\ tasks = [t \in TaskId |-> NoTask]
    /\ withdrawable = [a \in Account |-> 0]
    /\ usedAttestations = {}
    /\ totalLockedRewards = 0
    /\ totalWithdrawable = 0
    /\ balance = 0
    /\ now = 1
    /\ deposit = [t \in TaskId |-> 0]
    /\ receiptAt = [t \in TaskId |-> 0]
    /\ paid = [a \in Account |-> 0]
    /\ forced = 0
    /\ signed = {}
    /\ call = NotCalling

ValidTask(taskHash, policyHash, assignee, deadline) ==
    /\ taskHash # NoHash /\ policyHash # NoHash
    /\ assignee # NoAccount
    /\ deadline # 0 => deadline > now

\* Mutant: the width of msg.value is not checked before it is cut to uint96.
MValueFits(value) == TRUE

ValueFits(value) == value <= RewardMax

createTask(sender, value, taskHash, policyHash, assignee, deadline) ==
    /\ CanCall(sender)
    /\ ValidTask(taskHash, policyHash, assignee, deadline)
    /\ ValueFits(value)
    /\ nextTaskId <= MaxTasks
    /\ nextTaskId' = nextTaskId + 1
    /\ tasks' = [tasks EXCEPT ![nextTaskId] =
                    [creator |-> sender, deadline |-> deadline,
                     status |-> "Open", assignee |-> assignee,
                     reward |-> value % (RewardMax + 1),     \* uint96(msg.value)
                     taskHash |-> taskHash, policyHash |-> policyHash,
                     evidenceHash |-> NoHash, commitHash |-> NoHash]]
    /\ totalLockedRewards' = totalLockedRewards + value
    /\ balance' = balance + value
    /\ deposit' = [deposit EXCEPT ![nextTaskId] = value]
    /\ UNCHANGED <<withdrawable, usedAttestations, totalWithdrawable,
                   receiptAt, paid, forced, now, signed, call>>

AwaitsReceipt(t) ==
    /\ tasks[t].status = "Open"
    /\ tasks[t].deadline # 0 => now <= tasks[t].deadline

\* Mutant: the digest does not bind the task id.
MSignedByVerifier(digest) ==
    \E d \in signed : [d EXCEPT !.taskId = digest.taskId] = digest

\* The signature recovers to the verifier.
SignedByVerifier(digest) == digest \in signed

\* Mutant: the attestation's expiry is not checked.
MUnexpired(expiry) == TRUE

Unexpired(expiry) == now <= expiry

submitReceipt(sender, t, evidence, commit, expiry) ==
    LET digest == receiptAttestationDigest(t, evidence, commit, expiry)
    IN  /\ CanCall(sender)
        /\ Exists(t)
        /\ sender = tasks[t].assignee
        /\ evidence # NoHash /\ commit # NoHash
        /\ Unexpired(expiry)
        /\ digest \notin usedAttestations
        /\ AwaitsReceipt(t)
        /\ SignedByVerifier(digest)
        /\ usedAttestations' = usedAttestations \cup {digest}
        /\ tasks' = [tasks EXCEPT ![t].evidenceHash = evidence,
                                  ![t].commitHash = commit,
                                  ![t].status = "ReceiptSubmitted"]
        /\ receiptAt' = [receiptAt EXCEPT ![t] = now]
        /\ UNCHANGED <<nextTaskId, withdrawable, totalLockedRewards,
                       totalWithdrawable, balance, deposit, paid, forced, now,
                       signed, call>>

\* Mutant: the reward stays counted as locked.
MSettleKeepsLocked(t, status, account) ==
    /\ tasks' = [tasks EXCEPT ![t].status = status, ![t].reward = 0]
    /\ withdrawable' = [withdrawable EXCEPT ![account] = @ + tasks[t].reward]
    /\ totalWithdrawable' = totalWithdrawable + tasks[t].reward
    /\ UNCHANGED <<nextTaskId, usedAttestations, totalLockedRewards, balance,
                   events, now, signed, call>>

\* Mutant: an earlier credit of the account is overwritten.
MSettleOverwrites(t, status, account) ==
    LET amount == tasks[t].reward
    IN  /\ tasks' = [tasks EXCEPT ![t].status = status, ![t].reward = 0]
        /\ totalLockedRewards' = totalLockedRewards - amount
        /\ withdrawable' = [withdrawable EXCEPT ![account] = amount]
        /\ totalWithdrawable' = totalWithdrawable + amount
        /\ UNCHANGED <<nextTaskId, usedAttestations, balance, events, now,
                       signed, call>>

\* Mutant: the locked rewards are taken from the balance, not kept.
MSettleFromBalance(t, status, account) ==
    LET amount == tasks[t].reward
    IN  /\ tasks' = [tasks EXCEPT ![t].status = status, ![t].reward = 0]
        /\ totalLockedRewards' = balance - totalWithdrawable - amount
        /\ withdrawable' = [withdrawable EXCEPT ![account] = @ + amount]
        /\ totalWithdrawable' = totalWithdrawable + amount
        /\ UNCHANGED <<nextTaskId, usedAttestations, balance, events, now,
                       signed, call>>

\* Mutant: the receipt of a settled task is deleted.
MSettleForgets(t, status, account) ==
    LET amount == tasks[t].reward
    IN  /\ tasks' = [tasks EXCEPT ![t].status = status, ![t].reward = 0,
                                  ![t].evidenceHash = NoHash]
        /\ totalLockedRewards' = totalLockedRewards - amount
        /\ withdrawable' = [withdrawable EXCEPT ![account] = @ + amount]
        /\ totalWithdrawable' = totalWithdrawable + amount
        /\ UNCHANGED <<nextTaskId, usedAttestations, balance, events, now,
                       signed, call>>

\* The status change of t with the credit of its reward (_creditReward).  The
\* arithmetic is checked: a subtraction that would wrap reverts the call.
Settle(t, status, account) ==
    LET amount == tasks[t].reward
    IN  /\ amount <= totalLockedRewards
        /\ tasks' = [tasks EXCEPT ![t].status = status, ![t].reward = 0]
        /\ totalLockedRewards' = totalLockedRewards - amount
        /\ withdrawable' = [withdrawable EXCEPT ![account] = @ + amount]
        /\ totalWithdrawable' = totalWithdrawable + amount
        /\ UNCHANGED <<nextTaskId, usedAttestations, balance, events, now,
                       signed, call>>

\* Mutant: approval pays the creator.
MapproveTask(sender, t) ==
    /\ CanCall(sender)
    /\ Exists(t)
    /\ sender = tasks[t].creator
    /\ tasks[t].status = "ReceiptSubmitted"
    /\ Settle(t, "Approved", tasks[t].creator)

approveTask(sender, t) ==
    /\ CanCall(sender)
    /\ Exists(t)
    /\ sender = tasks[t].creator
    /\ tasks[t].status = "ReceiptSubmitted"
    /\ Settle(t, "Approved", tasks[t].assignee)

rejectTask(sender, t, reasonHash) ==
    /\ CanCall(sender)
    /\ Exists(t)
    /\ sender = tasks[t].creator
    /\ tasks[t].status = "ReceiptSubmitted"
    /\ reasonHash # NoHash
    /\ Settle(t, "Rejected", tasks[t].creator)

\* Mutant: the status is not checked.
McancelTask(sender, t) ==
    /\ CanCall(sender)
    /\ Exists(t)
    /\ sender = tasks[t].creator
    /\ Settle(t, "Cancelled", tasks[t].creator)

cancelTask(sender, t) ==
    /\ CanCall(sender)
    /\ Exists(t)
    /\ sender = tasks[t].creator
    /\ tasks[t].status = "Open"
    /\ Settle(t, "Cancelled", tasks[t].creator)

expireTask(sender, t) ==
    /\ CanCall(sender)
    /\ Exists(t)
    /\ tasks[t].status = "Open"
    /\ tasks[t].deadline # 0 /\ now > tasks[t].deadline
    /\ Settle(t, "Expired", tasks[t].creator)

CreditCleared(sender) == [withdrawable EXCEPT ![sender] = 0]

\* withdraw() up to its external call.  nonReentrant refuses it inside another
\* withdrawal; a transfer the balance does not cover fails, and so reverts.
withdraw(sender) ==
    LET amount == withdrawable[sender]
    IN  /\ call = NotCalling
        /\ amount # 0
        /\ amount <= totalWithdrawable
        /\ amount <= balance
        /\ withdrawable' = CreditCleared(sender)
        /\ totalWithdrawable' = totalWithdrawable - amount
        /\ balance' = balance - amount
        /\ paid' = [paid EXCEPT ![sender] = @ + amount]
        /\ call' = [receiver |-> sender, saved |-> Snapshot]
        /\ UNCHANGED <<nextTaskId, tasks, usedAttestations, totalLockedRewards,
                       deposit, receiptAt, forced, now, signed>>

withdrawReturns ==
    /\ call # NotCalling
    /\ call' = NotCalling
    /\ UNCHANGED <<storage, balance, events, now, signed>>

\* Mutant: a failed transfer is not reverted, only not made.
MwithdrawFails ==
    /\ call # NotCalling
    /\ call.receiver \in Contracts
    /\ balance' = balance + paid[call.receiver] - call.saved.paid[call.receiver]
    /\ paid' = call.saved.paid
    /\ call' = NotCalling
    /\ UNCHANGED <<storage, deposit, receiptAt, forced, now, signed>>

\* The receiver's code fails: TransferFailed reverts the whole transaction.
withdrawFails ==
    /\ call # NotCalling
    /\ call.receiver \in Contracts
    /\ nextTaskId' = call.saved.nextTaskId
    /\ tasks' = call.saved.tasks
    /\ withdrawable' = call.saved.withdrawable
    /\ usedAttestations' = call.saved.usedAttestations
    /\ totalLockedRewards' = call.saved.totalLockedRewards
    /\ totalWithdrawable' = call.saved.totalWithdrawable
    /\ balance' = call.saved.balance
    /\ deposit' = call.saved.deposit
    /\ receiptAt' = call.saved.receiptAt
    /\ paid' = call.saved.paid
    /\ forced' = call.saved.forced
    /\ call' = NotCalling
    /\ UNCHANGED <<now, signed>>

\* Environment: the verifier signs off chain; currency reaches the contract by
\* a selfdestruct or a block reward; a later block is mined.
Attest(digest) ==
    /\ call = NotCalling
    /\ digest \notin signed
    /\ Cardinality(signed) < MaxSigned
    /\ signed' = signed \cup {digest}
    /\ UNCHANGED <<storage, balance, events, now, call>>

ForceFunds ==
    /\ forced < MaxForced
    /\ forced' = forced + 1
    /\ balance' = balance + 1
    /\ UNCHANGED <<storage, deposit, receiptAt, paid, now, signed, call>>

Tick ==
    /\ call = NotCalling
    /\ now < MaxTime
    /\ now' = now + 1
    /\ UNCHANGED <<storage, balance, events, signed, call>>

\* (The bound of createTask comes first, so that TLC does not go through its
\* inputs in vain.)
Next ==
    \/ /\ nextTaskId <= MaxTasks
       /\ \E sender \in Account, value \in 0..(RewardMax + 1),
             taskHash \in TaskHash \cup {NoHash},
             policyHash \in PolicyHash \cup {NoHash},
             assignee \in Account \cup {NoAccount}, deadline \in 0..MaxTime :
               createTask(sender, value, taskHash, policyHash, assignee, deadline)
    \/ \E sender \in Account, t \in TaskId,
          evidence \in EvidenceHash \cup {NoHash},
          commit \in CommitHash \cup {NoHash}, expiry \in Time :
            submitReceipt(sender, t, evidence, commit, expiry)
    \/ \E sender \in Account, t \in TaskId : approveTask(sender, t)
    \/ \E sender \in Account, t \in TaskId, reasonHash \in ReasonHash \cup {NoHash} :
            rejectTask(sender, t, reasonHash)
    \/ \E sender \in Account, t \in TaskId : cancelTask(sender, t)
    \/ \E sender \in Account, t \in TaskId : expireTask(sender, t)
    \/ \E sender \in Account : withdraw(sender)
    \/ withdrawReturns
    \/ withdrawFails
    \/ \E digest \in Attestation : Attest(digest)
    \/ ForceFunds
    \/ Tick

Spec == Init /\ [][Next]_vars
===============================================================================
