------------------------ MODULE DoneBondRegistryProps -------------------------
(***************************************************************************)
(* What DoneBondRegistry must guarantee, whatever the order of calls and   *)
(* however receivers behave when they are paid.                            *)
(***************************************************************************)
EXTENDS DoneBondRegistry

SnapshotSet ==
    [nextTaskId: 1..(MaxTasks + 1), tasks: [TaskId -> Task],
     withdrawable: [Account -> Nat], usedAttestations: SUBSET Attestation,
     totalLockedRewards: Nat, totalWithdrawable: Nat, balance: Nat,
     deposit: [TaskId -> Nat], receiptAt: [TaskId -> Nat],
     paid: [Account -> Nat], forced: Nat]

\* Type invariant: storage, event log and the transfer in progress have the
\* types the contract declares (uint96 reward, enum status, and so on).
TypeOK ==
    /\ Snapshot \in SnapshotSet
    /\ now \in Nat
    /\ signed \in SUBSET Attestation
    /\ call \in {NotCalling} \cup [receiver: Account, saved: SnapshotSet]

\* The state a transaction in progress falls back to: what the chain has.
Committed == IF call = NotCalling THEN Snapshot ELSE call.saved

HasReceipt == {"ReceiptSubmitted", "Approved", "Rejected"}

\* The account the reward of task t of state s belongs to, once it is settled.
Beneficiary(s, t) ==
    IF s.tasks[t].status = "Approved" THEN s.tasks[t].assignee
                                      ELSE s.tasks[t].creator

RewardOwed(s, a) ==
    [t \in TaskId |-> IF s.tasks[t].status \in Terminal /\ Beneficiary(s, t) = a
                        THEN s.deposit[t] ELSE 0]

\* CONTRACT_SPEC.md: "Contract balance is always at least total withdrawable
\* credits plus rewards still locked".  It holds in the middle of a transfer
\* too, and the surplus is exactly what was forced into the contract.
Solvency == balance = totalLockedRewards + totalWithdrawable + forced

\* totalLockedRewards is the sum of the rewards of the open and
\* receipt-submitted tasks; each of those still holds its whole deposit.
LockedRewardsExact ==
    /\ totalLockedRewards = Total([t \in TaskId |-> tasks[t].reward])
    /\ \A t \in TaskId :
          tasks[t].reward = IF tasks[t].status \in Active THEN deposit[t] ELSE 0

\* totalWithdrawable is the sum of the credits of all accounts.
CreditsExact == totalWithdrawable = Total(withdrawable)

\* Every reward is credited once and withdrawn at most once, to the right
\* account: what an account has and has had equals the deposits of the tasks
\* settled in its favour (approve: the assignee; reject, cancel, expire: the
\* creator), although receivers re-enter and fail.
RewardPaidOnce ==
    \A a \in Account :
        withdrawable[a] + paid[a] = Total(RewardOwed(Snapshot, a))

\* Consumed attestations and receipts correspond one to one.  A receipt rests
\* on an attestation the verifier signed over the task's own commitments,
\* consumed before it expired and before the task's deadline.
ReceiptAttested ==
    \A t \in TaskId :
        LET consumed == {d \in usedAttestations : d.taskId = t}
        IN  IF tasks[t].status \in HasReceipt
              THEN \E d \in signed :
                      /\ consumed = {d}
                      /\ d.taskHash = tasks[t].taskHash
                      /\ d.policyHash = tasks[t].policyHash
                      /\ d.assignee = tasks[t].assignee
                      /\ d.evidenceHash = tasks[t].evidenceHash
                      /\ d.commitHash = tasks[t].commitHash
                      /\ receiptAt[t] <= d.attestationExpiry
                      /\ tasks[t].deadline # 0 => receiptAt[t] <= tasks[t].deadline
              ELSE consumed = {}

\* CONTRACT_SPEC.md: "No transition leaves a terminal state", and the record
\* of a settled task never changes again, also when a withdrawal is undone.
TerminalIsFinal ==
    [][\A t \in TaskId :
          Committed.tasks[t].status \in Terminal =>
              Committed'.tasks[t] = Committed.tasks[t]]_vars

\* CONTRACT_SPEC.md: "Hash commitments are immutable": the parties, deadline
\* and hashes of a task, and the evidence of a receipt, are set once.
CommitmentsImmutable ==
    [][\A t \in TaskId :
          LET old == Committed.tasks[t]
              new == Committed'.tasks[t]
          IN  /\ old.status # "None" =>
                    /\ new.status # "None"
                    /\ new.creator = old.creator
                    /\ new.assignee = old.assignee
                    /\ new.deadline = old.deadline
                    /\ new.taskHash = old.taskHash
                    /\ new.policyHash = old.policyHash
              /\ old.evidenceHash # NoHash =>
                    /\ new.evidenceHash = old.evidenceHash
                    /\ new.commitHash = old.commitHash]_vars

\* The two marks of a task without an owner are no addresses.
ASSUME MarkAssumption == Account \cap {"unfunded", "escrowed"} = {}

\* The refinement mapping: committed tasks, seen as stakes and their holders.
HolderOf(t) ==
    LET task == Committed.tasks[t]
    IN  CASE task.status = "None"   -> "unfunded"
          [] task.status \in Active -> "escrowed"
          [] OTHER                  -> Beneficiary(Committed, t)

Ledger == INSTANCE EscrowLedger WITH
    Unfunded  <- "unfunded",
    Escrowed  <- "escrowed",
    stake     <- Committed.deposit,
    parties   <- [t \in TaskId |->
                    {Committed.tasks[t].creator, Committed.tasks[t].assignee}
                        \ {NoAccount}],
    holder    <- [t \in TaskId |-> HolderOf(t)],
    collected <- Committed.paid

\* The contract implements the escrow ledger: each transaction, with all the
\* nested calls a receiver makes, is one step of the ledger or none.
ImplementsLedger == Ledger!Spec
===============================================================================
