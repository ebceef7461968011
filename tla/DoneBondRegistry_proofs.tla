----------------------- MODULE DoneBondRegistry_proofs ------------------------
(***************************************************************************)
(* What DoneBondRegistryProps states, proved for every set of accounts,    *)
(* hashes and bounds: first the accounting of the coins; then tasks and    *)
(* their receipts, through transfers that fail; then that the contract     *)
(* implements EscrowLedger.                                                *)
(***************************************************************************)
EXTENDS DoneBondRegistryProps, FiniteSetTheorems, TLAPS

--------------------------------------------------------------------------------
\* How the total of a function changes when the function changes at one point.

\* n is the total of f, and f has finitely many coins.
IsTotal(n, f) == IsFiniteSet(Coins(f)) /\ Total(f) = n

\* One index contributes as many coins as its value.
LEMMA BlockSize ==
    ASSUME NEW i, NEW n \in Nat
    PROVE  IsFiniteSet({i} \X (1..n)) /\ Cardinality({i} \X (1..n)) = n
<1> DEFINE b == [k \in 1..n |-> <<i, k>>]
<1>1. b \in Bijection(1..n, {i} \X (1..n))
  BY DEF Bijection, Injection, Surjection, IsInjective
<1>2. ExistsBijection(1..n, {i} \X (1..n))
  BY <1>1 DEF ExistsBijection
<1>3. IsFiniteSet(1..n) /\ Cardinality(1..n) = n
  BY FS_Interval
<1> QED  BY <1>2, <1>3, FS_Bijection

\* The function that is zero everywhere has no coins.
LEMMA TotalOfZero ==
    ASSUME NEW S, NEW f, f = [x \in S |-> 0]
    PROVE  IsTotal(0, f)
<1>1. Coins(f) = {}  BY DEF Coins
<1> QED  BY <1>1, FS_EmptySet DEF IsTotal, Total

\* Changing one value changes the total by the difference.
LEMMA TotalOfUpdate ==
    ASSUME NEW S, NEW f \in [S -> Nat], NEW g \in [S -> Nat], NEW i \in S,
           \A j \in S : j # i => g[j] = f[j],
           NEW n \in Nat, IsTotal(n, f)
    PROVE  IsTotal(n - f[i] + g[i], g) /\ f[i] <= n
<1> DEFINE Rest == {c \in Coins(f) : c[1] # i}
           F == {i} \X (1..f[i])
           G == {i} \X (1..g[i])
<1>1. f[i] \in Nat /\ g[i] \in Nat  OBVIOUS
<1>2. IsFiniteSet(F) /\ Cardinality(F) = f[i]  BY <1>1, BlockSize
<1>3. IsFiniteSet(G) /\ Cardinality(G) = g[i]  BY <1>1, BlockSize
<1>4. Coins(f) = Rest \cup F /\ Rest \cap F = {}
  BY DEF Coins
<1>5. Coins(g) = Rest \cup G /\ Rest \cap G = {}
  BY DEF Coins
<1>6. IsFiniteSet(Rest) /\ Cardinality(Rest) \in Nat
  BY FS_Subset, FS_CardinalityType DEF IsTotal
<1> HIDE DEF Rest, F, G
<1>7. Cardinality(Rest) + f[i] = n
  <2>0. Cardinality(Coins(f)) = n  BY DEF IsTotal, Total
  <2>1. Cardinality(Rest \cup F) = Cardinality(Rest) + Cardinality(F) - Cardinality({})
    BY <1>2, <1>4, <1>6, FS_Union
  <2> QED  BY <2>0, <2>1, <1>1, <1>2, <1>4, <1>6, FS_EmptySet
<1>8. IsFiniteSet(Coins(g)) /\ Cardinality(Coins(g)) = Cardinality(Rest) + g[i]
  <2>1. /\ IsFiniteSet(Rest \cup G)
        /\ Cardinality(Rest \cup G) = Cardinality(Rest) + Cardinality(G) - Cardinality({})
    BY <1>3, <1>5, <1>6, FS_Union
  <2> QED  BY <2>1, <1>1, <1>3, <1>5, <1>6, FS_EmptySet
<1> QED  BY <1>1, <1>6, <1>7, <1>8 DEF IsTotal, Total

--------------------------------------------------------------------------------
\* The types of the state, and the accounting of the coins.

USE DEF TaskId, Time

\* The types of the contract's state, variable by variable.
StateTypes ==
    /\ nextTaskId \in 1..(MaxTasks + 1)
    /\ tasks \in [TaskId -> Task]
    /\ withdrawable \in [Account -> Nat]
    /\ usedAttestations \in SUBSET Attestation
    /\ totalLockedRewards \in Nat
    /\ totalWithdrawable \in Nat
    /\ balance \in Nat
    /\ deposit \in [TaskId -> Nat]
    /\ receiptAt \in [TaskId -> Nat]
    /\ paid \in [Account -> Nat]
    /\ forced \in Nat

\* The snapshot of a withdrawal is typed as the state is.
LEMMA SnapshotTypes == Snapshot \in SnapshotSet <=> StateTypes
  BY DEF Snapshot, SnapshotSet, StateTypes

\* What a failed transfer restores, field by field.
LEMMA SnapshotFields ==
    /\ Snapshot.nextTaskId = nextTaskId
    /\ Snapshot.tasks = tasks
    /\ Snapshot.withdrawable = withdrawable
    /\ Snapshot.usedAttestations = usedAttestations
    /\ Snapshot.totalLockedRewards = totalLockedRewards
    /\ Snapshot.totalWithdrawable = totalWithdrawable
    /\ Snapshot.balance = balance
    /\ Snapshot.deposit = deposit
    /\ Snapshot.receiptAt = receiptAt
    /\ Snapshot.paid = paid
    /\ Snapshot.forced = forced
  BY DEF Snapshot

\* A task that exists is one createTask wrote.
LEMMA ExistingTask ==
    ASSUME StateTypes, NEW t \in TaskId, Exists(t)
    PROVE  tasks[t] \in CreatedTask
<1>1. tasks[t] \in Task  BY DEF StateTypes
<1>2. NoTask.status = "None"  BY DEF NoTask
<1> QED  BY <1>1, <1>2 DEF Exists, Task

\* Types are kept by a settlement (approve, reject, cancel, expire).
LEMMA SettleTypes ==
    ASSUME StateTypes, NEW t \in TaskId, Exists(t), NEW status \in Terminal,
           NEW account \in Account, Settle(t, status, account)
    PROVE  StateTypes'
<1> DEFINE new == [tasks[t] EXCEPT !.status = status, !.reward = 0]
<1>1. tasks[t] \in CreatedTask  BY ExistingTask
<1>2. tasks[t].reward \in Nat  BY <1>1, BoundAssumption DEF CreatedTask
<1>3. new \in CreatedTask
  <2>1. 0 \in 0..RewardMax  BY BoundAssumption
  <2>2. status \in Active \cup Terminal  OBVIOUS
  <2> QED  BY <1>1, <2>1, <2>2 DEF CreatedTask
<1>4. tasks' = [tasks EXCEPT ![t] = new]  BY <1>1 DEF Settle, StateTypes
<1>5. tasks' \in [TaskId -> Task]  BY <1>3, <1>4 DEF StateTypes, Task
<1> DEFINE amount == tasks[t].reward
<1>a. /\ withdrawable' = [withdrawable EXCEPT ![account] = @ + amount]
      /\ amount <= totalLockedRewards
      /\ totalLockedRewards' = totalLockedRewards - amount
      /\ totalWithdrawable' = totalWithdrawable + amount
  BY DEF Settle
<1>b. /\ withdrawable \in [Account -> Nat]
      /\ totalLockedRewards \in Nat /\ totalWithdrawable \in Nat
  BY DEF StateTypes
<1>6. withdrawable' \in [Account -> Nat]
  <2> HIDE DEF amount
  <2>1. withdrawable[account] + amount \in Nat  BY <1>2, <1>b DEF amount
  <2> QED  BY <1>a, <1>b, <2>1
<1>7. totalLockedRewards' \in Nat /\ totalWithdrawable' \in Nat
  <2> HIDE DEF amount
  <2>1. amount \in Nat  BY <1>2 DEF amount
  <2> QED  BY <1>a, <1>b, <2>1
<1> QED  BY <1>5, <1>6, <1>7 DEF Settle, StateTypes, events

\* The registry never leaves the types it declares.
THEOREM TypeCorrect == Spec => []TypeOK
<1> USE BoundAssumption, AddressAssumption, HashAssumption
<1>1. Init => TypeOK
  <2> SUFFICES ASSUME Init PROVE TypeOK  OBVIOUS
  <2>1. StateTypes  BY DEF Init, StateTypes, Task
  <2> QED  BY <2>1, SnapshotTypes DEF Init, TypeOK
<1>2. TypeOK /\ [Next]_vars => TypeOK'
  <2> SUFFICES ASSUME TypeOK, [Next]_vars PROVE TypeOK'  OBVIOUS
  <2> USE DEF TypeOK
  <2>0. StateTypes /\ (StateTypes' => Snapshot' \in SnapshotSet)
    BY SnapshotTypes DEF Snapshot, SnapshotSet, StateTypes
  <2>1. ASSUME NEW sender \in Account, NEW value \in 0..(RewardMax + 1),
               NEW taskHash \in TaskHash \cup {NoHash},
               NEW policyHash \in PolicyHash \cup {NoHash},
               NEW assignee \in Account \cup {NoAccount},
               NEW deadline \in 0..MaxTime,
               createTask(sender, value, taskHash, policyHash, assignee, deadline)
        PROVE  TypeOK'
    <3> DEFINE new == [creator |-> sender, deadline |-> deadline,
                       status |-> "Open", assignee |-> assignee,
                       reward |-> value % (RewardMax + 1),
                       taskHash |-> taskHash, policyHash |-> policyHash,
                       evidenceHash |-> NoHash, commitHash |-> NoHash]
    <3>1. new \in CreatedTask
      BY <2>1 DEF createTask, ValidTask, CreatedTask, Active
    <3>2. tasks' \in [TaskId -> Task]
      BY <2>0, <2>1, <3>1 DEF createTask, StateTypes, Task
    <3>3. value \in Nat  OBVIOUS
    <3>4. /\ nextTaskId' \in 1..(MaxTasks + 1)
          /\ totalLockedRewards' \in Nat
          /\ balance' \in Nat
          /\ deposit' \in [TaskId -> Nat]
      <4>1. nextTaskId' \in 1..(MaxTasks + 1)
        BY <2>0, <2>1 DEF createTask, StateTypes
      <4>2. totalLockedRewards' \in Nat /\ balance' \in Nat
        BY <2>0, <2>1, <3>3 DEF createTask, StateTypes
      <4>3. deposit' \in [TaskId -> Nat]
        BY <2>0, <2>1, <3>3 DEF createTask, StateTypes
      <4> QED  BY <4>1, <4>2, <4>3
    <3>5. StateTypes'
      BY <2>0, <2>1, <3>2, <3>4 DEF createTask, StateTypes
    <3> QED  BY <2>0, <2>1, <3>5 DEF createTask
  <2>2. ASSUME NEW sender \in Account, NEW t \in TaskId,
               NEW evidence \in EvidenceHash \cup {NoHash},
               NEW commit \in CommitHash \cup {NoHash}, NEW expiry \in Time,
               submitReceipt(sender, t, evidence, commit, expiry)
        PROVE  TypeOK'
    <3> DEFINE new == [tasks[t] EXCEPT !.evidenceHash = evidence,
                                       !.commitHash = commit,
                                       !.status = "ReceiptSubmitted"]
               digest == receiptAttestationDigest(t, evidence, commit, expiry)
    <3>1. tasks[t] \in CreatedTask
      BY <2>0, <2>2, ExistingTask DEF submitReceipt
    <3>2. new \in CreatedTask  BY <3>1 DEF CreatedTask, Active
    <3>3. tasks' \in [TaskId -> Task]
      BY <2>0, <2>2, <3>1, <3>2 DEF submitReceipt, StateTypes, Task
    <3>4. digest \in Attestation
      BY <2>2 DEF submitReceipt, SignedByVerifier
    <3>5. usedAttestations' \in SUBSET Attestation
      BY <2>0, <2>2, <3>4 DEF submitReceipt, StateTypes
    <3>6. receiptAt' \in [TaskId -> Nat]
      BY <2>0, <2>2 DEF submitReceipt, StateTypes
    <3>7. StateTypes'
      BY <2>0, <2>2, <3>3, <3>5, <3>6 DEF submitReceipt, StateTypes
    <3> QED  BY <2>0, <2>2, <3>7 DEF submitReceipt
  <2>3. ASSUME NEW t \in TaskId, Exists(t), NEW status \in Terminal,
               NEW account \in Account, Settle(t, status, account)
        PROVE  TypeOK'
    BY <2>0, <2>3, SettleTypes DEF Settle
  <2>4. ASSUME NEW sender \in Account, NEW t \in TaskId, approveTask(sender, t)
        PROVE  TypeOK'
    BY <2>0, <2>3, <2>4, ExistingTask DEF approveTask, CreatedTask, Terminal
  <2>5. ASSUME NEW sender \in Account, NEW t \in TaskId,
               NEW reasonHash \in ReasonHash \cup {NoHash},
               rejectTask(sender, t, reasonHash)
        PROVE  TypeOK'
    BY <2>0, <2>3, <2>5, ExistingTask DEF rejectTask, CreatedTask, Terminal
  <2>6. ASSUME NEW sender \in Account, NEW t \in TaskId, cancelTask(sender, t)
        PROVE  TypeOK'
    BY <2>0, <2>3, <2>6, ExistingTask DEF cancelTask, CreatedTask, Terminal
  <2>7. ASSUME NEW sender \in Account, NEW t \in TaskId, expireTask(sender, t)
        PROVE  TypeOK'
    BY <2>0, <2>3, <2>7, ExistingTask DEF expireTask, CreatedTask, Terminal
  <2>8. ASSUME NEW sender \in Account, withdraw(sender)
        PROVE  TypeOK'
    <3> DEFINE amount == withdrawable[sender]
    <3>a. /\ withdrawable \in [Account -> Nat] /\ paid \in [Account -> Nat]
          /\ totalWithdrawable \in Nat /\ balance \in Nat
      BY <2>0 DEF StateTypes
    <3>b. /\ amount <= totalWithdrawable /\ amount <= balance
          /\ withdrawable' = [withdrawable EXCEPT ![sender] = 0]
          /\ totalWithdrawable' = totalWithdrawable - amount
          /\ balance' = balance - amount
          /\ paid' = [paid EXCEPT ![sender] = @ + amount]
      BY <2>8 DEF withdraw, CreditCleared
    <3>c. amount \in Nat /\ paid[sender] + amount \in Nat  BY <3>a
    <3>d. withdrawable' \in [Account -> Nat]  BY <3>a, <3>b
    <3> HIDE DEF amount
    <3>e. /\ paid' \in [Account -> Nat]
          /\ totalWithdrawable' \in Nat /\ balance' \in Nat
      BY <3>a, <3>b, <3>c
    <3>1. StateTypes'
      BY <2>0, <2>8, <3>d, <3>e DEF withdraw, StateTypes
    <3>2. call' \in [receiver: Account, saved: SnapshotSet]
      BY <2>8 DEF withdraw
    <3> QED  BY <2>0, <2>8, <3>1, <3>2 DEF withdraw
  <2>9. CASE withdrawReturns
    <3>1. StateTypes'  BY <2>0, <2>9 DEF withdrawReturns, StateTypes, storage, events
    <3> QED  BY <2>0, <2>9, <3>1 DEF withdrawReturns
  <2>10. CASE withdrawFails
    <3>1. call.saved \in SnapshotSet  BY <2>10 DEF withdrawFails
    <3>2. StateTypes'  BY <2>10, <3>1 DEF withdrawFails, StateTypes, SnapshotSet
    <3> QED  BY <2>0, <2>10, <3>2 DEF withdrawFails
  <2>11. ASSUME NEW digest \in Attestation, Attest(digest)
         PROVE  TypeOK'
    <3>1. StateTypes'  BY <2>0, <2>11 DEF Attest, StateTypes, storage, events
    <3> QED  BY <2>0, <2>11, <3>1 DEF Attest
  <2>12. CASE ForceFunds
    <3>1. StateTypes'  BY <2>0, <2>12 DEF ForceFunds, StateTypes, storage
    <3> QED  BY <2>0, <2>12, <3>1 DEF ForceFunds
  <2>13. CASE Tick
    <3>1. StateTypes'  BY <2>0, <2>13 DEF Tick, StateTypes, storage, events
    <3> QED  BY <2>0, <2>13, <3>1 DEF Tick
  <2>14. CASE UNCHANGED vars
    <3>1. StateTypes'  BY <2>0, <2>14 DEF vars, StateTypes, storage, events
    <3> QED  BY <2>0, <2>14, <3>1 DEF vars
  <2> QED
    BY <2>1, <2>2, <2>4, <2>5, <2>6, <2>7, <2>8, <2>9, <2>10, <2>11, <2>12,
       <2>13, <2>14 DEF Next
<1> QED  BY <1>1, <1>2, PTL DEF Spec

-------------------------------------------------------------------------------
(***************************************************************************)
(* Accounting.  The counters are sums over tasks and accounts, so the      *)
(* inductive invariant says which sums, and says it of the state a failing *)
(* transfer would restore as well as of the current one.                   *)
(***************************************************************************)
Rewards(tk) == [t \in TaskId |-> tk[t].reward]

Owed(tk, dep, a) ==
    [t \in TaskId |->
        IF /\ tk[t].status \in Terminal
           /\ (IF tk[t].status = "Approved" THEN tk[t].assignee
                                            ELSE tk[t].creator) = a
        THEN dep[t] ELSE 0]

Unallocated(next, tk) ==
    \A t \in TaskId : t >= next => tk[t].status = "None"

Held(tk, dep) ==
    \A t \in TaskId :
        tk[t].reward = IF tk[t].status \in Active THEN dep[t] ELSE 0

Entitled(tk, dep, wd, pd) ==
    \A a \in Account : IsTotal(wd[a] + pd[a], Owed(tk, dep, a))

Accounts(next, tk, wd, locked, total, bal, dep, pd, frc) ==
    /\ Unallocated(next, tk)
    /\ Held(tk, dep)
    /\ bal = locked + total + frc
    /\ IsTotal(locked, Rewards(tk))
    /\ IsTotal(total, wd)
    /\ Entitled(tk, dep, wd, pd)

CurrentAccounts == Accounts(nextTaskId, tasks, withdrawable, totalLockedRewards,
                            totalWithdrawable, balance, deposit, paid, forced)

SavedAccounts ==
    LET s == call.saved
    IN  Accounts(s.nextTaskId, s.tasks, s.withdrawable, s.totalLockedRewards,
                 s.totalWithdrawable, s.balance, s.deposit, s.paid, s.forced)

AccountingInv == CurrentAccounts /\ (call # NotCalling => SavedAccounts)

\* Settling moves the reward of one task from the locked total to one credit.
LEMMA SettleAccounts ==
    ASSUME StateTypes, CurrentAccounts, NEW t \in TaskId,
           tasks[t].status \in Active, NEW status \in Terminal,
           NEW account \in Account,
           account = IF status = "Approved" THEN tasks[t].assignee
                                            ELSE tasks[t].creator,
           Settle(t, status, account)
    PROVE  CurrentAccounts'
<1> USE BoundAssumption DEF CurrentAccounts, Accounts
<1> DEFINE amount == tasks[t].reward
           new == [tasks[t] EXCEPT !.status = status, !.reward = 0]
<1>0. tasks[t] \in CreatedTask
  BY ExistingTask DEF Exists, Active
<1>1. amount \in Nat /\ amount = deposit[t]
  BY <1>0 DEF CreatedTask, Held
<1>2. tasks' = [tasks EXCEPT ![t] = new] /\ tasks'[t] = new
  BY <1>0 DEF Settle, StateTypes
<1>3. /\ new.status = status /\ new.reward = 0
      /\ new.creator = tasks[t].creator /\ new.assignee = tasks[t].assignee
  BY <1>0 DEF CreatedTask
<1>4. \A u \in TaskId : u # t => tasks'[u] = tasks[u]
  BY <1>2 DEF StateTypes
<1>5. StateTypes'
  BY SettleTypes DEF Exists, Active
<1>6. \A u \in TaskId : tasks[u].reward \in Nat /\ tasks'[u].reward \in Nat
  <2>1. \A x \in Task : x.reward \in Nat
    BY DEF Task, CreatedTask, NoTask
  <2> QED  BY <1>5, <2>1 DEF StateTypes
<1>7. Terminal \cap Active = {}
  BY DEF Terminal, Active
<1> HIDE DEF amount, new
<1>8. Unallocated(nextTaskId, tasks)'
  BY <1>2, <1>3, <1>4 DEF Unallocated, Settle, Active
<1>9. Held(tasks, deposit)'
  <2>1. deposit' = deposit  BY DEF Settle, events
  <2> QED  BY <1>2, <1>3, <1>4, <1>7, <2>1 DEF Held
<1>10. (balance = totalLockedRewards + totalWithdrawable + forced)'
  <2>1. /\ totalLockedRewards' = totalLockedRewards - amount
        /\ totalWithdrawable' = totalWithdrawable + amount
        /\ balance' = balance
        /\ forced' = forced
    BY DEF Settle, events, amount
  <2>2. balance \in Nat /\ totalLockedRewards \in Nat
          /\ totalWithdrawable \in Nat /\ forced \in Nat
    BY DEF StateTypes
  <2> QED  BY <1>1, <2>1, <2>2
<1>11. IsTotal(totalLockedRewards, Rewards(tasks))'
  <2> DEFINE f == Rewards(tasks)
             g == Rewards(tasks')
  <2>1. f \in [TaskId -> Nat] /\ g \in [TaskId -> Nat]
    BY <1>6 DEF Rewards
  <2>2. f[t] = amount /\ g[t] = 0 /\ \A u \in TaskId : u # t => g[u] = f[u]
    BY <1>2, <1>3, <1>4 DEF Rewards, amount
  <2>3. totalLockedRewards \in Nat /\ IsTotal(totalLockedRewards, f)
    BY DEF StateTypes
  <2> HIDE DEF f, g
  <2>4. IsTotal(totalLockedRewards - f[t] + g[t], g)
    BY <2>1, <2>2, <2>3, TotalOfUpdate
  <2>5. totalLockedRewards - f[t] + g[t] = totalLockedRewards'
    BY <1>1, <2>2, <2>3 DEF Settle, amount
  <2> QED  BY <2>4, <2>5 DEF g
<1>12. IsTotal(totalWithdrawable, withdrawable)'
  <2>1. withdrawable' = [withdrawable EXCEPT ![account] = @ + amount]
    BY DEF Settle, amount
  <2>2. withdrawable \in [Account -> Nat] /\ withdrawable' \in [Account -> Nat]
    BY <1>5 DEF StateTypes
  <2>3. /\ withdrawable'[account] = withdrawable[account] + amount
        /\ \A a \in Account : a # account => withdrawable'[a] = withdrawable[a]
    BY <2>1, <2>2
  <2>4. totalWithdrawable \in Nat /\ totalWithdrawable' = totalWithdrawable + amount
    BY DEF Settle, StateTypes, amount
  <2>5. IsTotal(totalWithdrawable - withdrawable[account] + withdrawable'[account],
                withdrawable')
    BY <2>2, <2>3, <2>4, TotalOfUpdate
  <2>6. totalWithdrawable - withdrawable[account] + withdrawable'[account]
          = totalWithdrawable'
    BY <1>1, <2>2, <2>3, <2>4
  <2> QED  BY <2>5, <2>6
<1>13. Entitled(tasks, deposit, withdrawable, paid)'
  <2> SUFFICES ASSUME NEW a \in Account
               PROVE  IsTotal(withdrawable'[a] + paid'[a], Owed(tasks', deposit', a))
    BY DEF Entitled
  <2>0. deposit' = deposit /\ paid' = paid  BY DEF Settle, events
  <2> DEFINE f == Owed(tasks, deposit, a)
             g == Owed(tasks', deposit, a)
             n == withdrawable[a] + paid[a]
  <2>1. f \in [TaskId -> Nat] /\ g \in [TaskId -> Nat]
    BY DEF Owed, StateTypes
  <2>2. \A u \in TaskId : u # t => g[u] = f[u]
    BY <1>4 DEF Owed
  <2>3. f[t] = 0
    BY <1>7 DEF Owed
  <2>4. g[t] = IF a = account THEN amount ELSE 0
    BY <1>1, <1>2, <1>3 DEF Owed
  <2>5. n \in Nat /\ IsTotal(n, f)
    <3>1. withdrawable[a] \in Nat /\ paid[a] \in Nat  BY DEF StateTypes
    <3> QED  BY <3>1 DEF Entitled
  <2>6. withdrawable'[a] + paid[a] = n + (IF a = account THEN amount ELSE 0)
    <3>1. withdrawable' = [withdrawable EXCEPT ![account] = @ + amount]
      BY DEF Settle, amount
    <3>2. withdrawable \in [Account -> Nat] /\ paid[a] \in Nat
      BY DEF StateTypes
    <3>3. withdrawable'[a] = withdrawable[a] + (IF a = account THEN amount ELSE 0)
      <4> HIDE DEF amount
      <4>1. CASE a = account  BY <3>1, <3>2, <4>1
      <4>2. CASE a # account  BY <1>1, <3>1, <3>2, <4>2
      <4> QED  BY <4>1, <4>2
    <3> QED  BY <1>1, <3>2, <3>3
  <2> HIDE DEF f, g, n
  <2>7. IsTotal(n - f[t] + g[t], g)
    BY <2>1, <2>2, <2>5, TotalOfUpdate
  <2>8. n - f[t] + g[t] = withdrawable'[a] + paid'[a]
    BY <1>1, <2>0, <2>3, <2>4, <2>5, <2>6
  <2> QED  BY <2>0, <2>7, <2>8 DEF g
<1> QED  BY <1>8, <1>9, <1>10, <1>11, <1>12, <1>13

\* Creating a task locks its reward: the slot it takes was empty.
LEMMA CreateAccounts ==
    ASSUME StateTypes, StateTypes', CurrentAccounts,
           NEW sender, NEW value \in Nat, NEW taskHash, NEW policyHash,
           NEW assignee, NEW deadline,
           createTask(sender, value, taskHash, policyHash, assignee, deadline)
    PROVE  CurrentAccounts'
<1> USE BoundAssumption DEF CurrentAccounts, Accounts
<1> DEFINE t == nextTaskId
           new == [creator |-> sender, deadline |-> deadline,
                   status |-> "Open", assignee |-> assignee,
                   reward |-> value % (RewardMax + 1),
                   taskHash |-> taskHash, policyHash |-> policyHash,
                   evidenceHash |-> NoHash, commitHash |-> NoHash]
<1>1. t \in TaskId /\ tasks[t].status = "None" /\ nextTaskId' = t + 1
  BY DEF createTask, StateTypes, Unallocated
<1>2. value % (RewardMax + 1) = value
  BY DEF createTask, ValueFits
<1>3. tasks' = [tasks EXCEPT ![t] = new]
  BY DEF createTask
<1>4. tasks'[t].status = "Open" /\ tasks'[t].reward = value
  BY <1>1, <1>2, <1>3 DEF StateTypes
<1>5. \A u \in TaskId : u # t => tasks'[u] = tasks[u]
  BY <1>3 DEF StateTypes
<1>6. \A u \in TaskId : tasks[u].reward \in Nat /\ tasks'[u].reward \in Nat
  <2>1. \A x \in Task : x.reward \in Nat
    BY DEF Task, CreatedTask, NoTask
  <2> QED  BY <2>1 DEF StateTypes
<1>7. deposit'[t] = value /\ \A u \in TaskId : u # t => deposit'[u] = deposit[u]
  BY <1>1 DEF createTask, StateTypes
<1> HIDE DEF t, new
<1>8. Unallocated(nextTaskId, tasks)'
  BY <1>1, <1>5 DEF Unallocated, t
<1>9. Held(tasks, deposit)'
  BY <1>4, <1>5, <1>7 DEF Held, Active
<1>10. (balance = totalLockedRewards + totalWithdrawable + forced)'
  BY DEF createTask, StateTypes
<1>11. IsTotal(totalLockedRewards, Rewards(tasks))'
  <2> DEFINE f == Rewards(tasks)
             g == Rewards(tasks')
  <2>1. f \in [TaskId -> Nat] /\ g \in [TaskId -> Nat]
    BY <1>6 DEF Rewards
  <2>2. f[t] = 0 /\ g[t] = value /\ \A u \in TaskId : u # t => g[u] = f[u]
    BY <1>1, <1>4, <1>5 DEF Rewards, Held, Active
  <2>3. totalLockedRewards \in Nat /\ IsTotal(totalLockedRewards, f)
    BY DEF StateTypes
  <2> HIDE DEF f, g
  <2>4. IsTotal(totalLockedRewards - f[t] + g[t], g)
    BY <1>1, <2>1, <2>2, <2>3, TotalOfUpdate
  <2>5. totalLockedRewards - f[t] + g[t] = totalLockedRewards'
    BY <2>2, <2>3 DEF createTask
  <2> QED  BY <2>4, <2>5 DEF g
<1>12. IsTotal(totalWithdrawable, withdrawable)'
  BY DEF createTask
<1>13. Entitled(tasks, deposit, withdrawable, paid)'
  <2> SUFFICES ASSUME NEW a \in Account
               PROVE  Owed(tasks', deposit', a) = Owed(tasks, deposit, a)
    BY DEF Entitled, createTask
  <2> QED  BY <1>1, <1>4, <1>5, <1>7 DEF Owed, Terminal
<1> QED  BY <1>8, <1>9, <1>10, <1>11, <1>12, <1>13

\* A receipt moves no money.
LEMMA SubmitAccounts ==
    ASSUME StateTypes, CurrentAccounts, NEW t \in TaskId,
           NEW sender, NEW evidence, NEW commit, NEW expiry,
           submitReceipt(sender, t, evidence, commit, expiry)
    PROVE  CurrentAccounts'
<1> USE DEF CurrentAccounts, Accounts
<1>0. tasks[t] \in CreatedTask /\ tasks[t].status = "Open"
  BY ExistingTask DEF submitReceipt, AwaitsReceipt
<1>1. /\ tasks'[t].status = "ReceiptSubmitted"
      /\ tasks'[t].reward = tasks[t].reward
  BY <1>0 DEF submitReceipt, StateTypes, CreatedTask
<1>2. \A u \in TaskId : u # t => tasks'[u] = tasks[u]
  BY DEF submitReceipt, StateTypes
<1>3. Unallocated(nextTaskId, tasks)'
  BY <1>0, <1>2 DEF Unallocated, submitReceipt
<1>4. Held(tasks, deposit)'
  BY <1>0, <1>1, <1>2 DEF Held, submitReceipt, Active
<1>5. Rewards(tasks') = Rewards(tasks)
  BY <1>1, <1>2 DEF Rewards
<1>6. \A a \in Account : Owed(tasks', deposit, a) = Owed(tasks, deposit, a)
  BY <1>0, <1>1, <1>2 DEF Owed, Terminal
<1> QED  BY <1>3, <1>4, <1>5, <1>6 DEF submitReceipt, Entitled

\* A withdrawal moves a credit to what has been paid.
LEMMA WithdrawAccounts ==
    ASSUME StateTypes, StateTypes', CurrentAccounts, NEW sender \in Account,
           withdraw(sender)
    PROVE  CurrentAccounts'
<1> USE DEF CurrentAccounts, Accounts
<1> DEFINE amount == withdrawable[sender]
<1>1. amount \in Nat  BY DEF StateTypes
<1>2. /\ withdrawable'[sender] = 0
      /\ \A a \in Account : a # sender => withdrawable'[a] = withdrawable[a]
  BY DEF withdraw, CreditCleared, StateTypes
<1>3. /\ paid'[sender] = paid[sender] + amount
      /\ \A a \in Account : a # sender => paid'[a] = paid[a]
  BY DEF withdraw, StateTypes
<1>4. (balance = totalLockedRewards + totalWithdrawable + forced)'
  <2>1. /\ balance' = balance - amount
        /\ totalWithdrawable' = totalWithdrawable - amount
        /\ totalLockedRewards' = totalLockedRewards
        /\ forced' = forced
    BY DEF withdraw
  <2>2. balance \in Nat /\ totalLockedRewards \in Nat
          /\ totalWithdrawable \in Nat /\ forced \in Nat
    BY DEF StateTypes
  <2> HIDE DEF amount
  <2> QED  BY <1>1, <2>1, <2>2
<1>5. IsTotal(totalWithdrawable, withdrawable)'
  <2>1. withdrawable \in [Account -> Nat] /\ withdrawable' \in [Account -> Nat]
    BY DEF StateTypes
  <2>2. totalWithdrawable \in Nat /\ totalWithdrawable' = totalWithdrawable - amount
    BY DEF withdraw, StateTypes
  <2>3. IsTotal(totalWithdrawable - withdrawable[sender] + withdrawable'[sender],
                withdrawable')
    BY <1>2, <2>1, <2>2, TotalOfUpdate
  <2>4. totalWithdrawable - withdrawable[sender] + withdrawable'[sender]
          = totalWithdrawable'
    BY <1>1, <1>2, <2>2
  <2> QED  BY <2>3, <2>4
<1>6. \A a \in Account : withdrawable'[a] + paid'[a] = withdrawable[a] + paid[a]
  <2> TAKE a \in Account
  <2>0. withdrawable[a] \in Nat /\ paid[a] \in Nat  BY DEF StateTypes
  <2>1. CASE a = sender
    <3>1. withdrawable'[a] = 0 /\ paid'[a] = paid[a] + withdrawable[a]
      BY <2>1, <1>2, <1>3
    <3> QED  BY <2>0, <3>1
  <2>2. CASE a # sender
    BY <2>2, <1>2, <1>3
  <2> QED  BY <2>1, <2>2
<1>7. Entitled(tasks, deposit, withdrawable, paid)'
  <2>1. tasks' = tasks /\ deposit' = deposit  BY DEF withdraw
  <2> QED  BY <1>6, <2>1 DEF Entitled
<1> QED  BY <1>4, <1>5, <1>7 DEF withdraw

\* The accounts are in order initially and after every step.
THEOREM AccountingCorrect == Spec => []AccountingInv
<1> USE BoundAssumption
<1>1. Init => AccountingInv
  <2> SUFFICES ASSUME Init PROVE AccountingInv  OBVIOUS
  <2>1. \A t \in TaskId : tasks[t].status = "None" /\ tasks[t].reward = 0
    BY DEF Init, NoTask
  <2>2. Rewards(tasks) = [t \in TaskId |-> 0]  BY <2>1 DEF Rewards
  <2>3. \A a \in Account : Owed(tasks, deposit, a) = [t \in TaskId |-> 0]
    BY <2>1 DEF Owed, Terminal
  <2>4. IsTotal(0, Rewards(tasks)) /\ IsTotal(0, withdrawable)
    BY <2>2, TotalOfZero DEF Init
  <2>5. Entitled(tasks, deposit, withdrawable, paid)
    <3> SUFFICES ASSUME NEW a \in Account
                 PROVE  IsTotal(withdrawable[a] + paid[a], Owed(tasks, deposit, a))
      BY DEF Entitled
    <3>1. withdrawable[a] + paid[a] = 0  BY DEF Init
    <3> QED  BY <3>1, <2>3, TotalOfZero
  <2>6. Held(tasks, deposit) /\ Unallocated(nextTaskId, tasks)
    BY <2>1 DEF Held, Unallocated, Active
  <2> QED
    BY <2>4, <2>5, <2>6 DEF Init, AccountingInv, CurrentAccounts, Accounts
<1>2. TypeOK /\ TypeOK' /\ AccountingInv /\ [Next]_vars => AccountingInv'
  <2> SUFFICES ASSUME TypeOK, TypeOK', AccountingInv, [Next]_vars
               PROVE  AccountingInv'
    OBVIOUS
  <2>0. StateTypes /\ StateTypes' /\ CurrentAccounts
    BY SnapshotTypes DEF TypeOK, AccountingInv, Snapshot, SnapshotSet, StateTypes
  <2>1. ASSUME CurrentAccounts', UNCHANGED call  PROVE AccountingInv'
    BY <2>1 DEF AccountingInv, SavedAccounts
  <2>2. ASSUME NEW t \in TaskId, Exists(t), tasks[t].status \in Active,
               NEW status \in Terminal,
               NEW account, account = IF status = "Approved"
                                        THEN tasks[t].assignee
                                        ELSE tasks[t].creator,
               Settle(t, status, account)
        PROVE  AccountingInv'
    <3>1. account \in Account
      BY <2>0, <2>2, ExistingTask DEF CreatedTask
    <3>2. CurrentAccounts'
      BY <2>0, <2>2, <3>1, SettleAccounts
    <3> QED  BY <2>1, <2>2, <3>2 DEF Settle
  <2>3. ASSUME NEW sender \in Account, NEW value \in 0..(RewardMax + 1),
               NEW taskHash \in TaskHash \cup {NoHash},
               NEW policyHash \in PolicyHash \cup {NoHash},
               NEW assignee \in Account \cup {NoAccount},
               NEW deadline \in 0..MaxTime,
               createTask(sender, value, taskHash, policyHash, assignee, deadline)
        PROVE  AccountingInv'
    <3>1. value \in Nat  OBVIOUS
    <3>2. CurrentAccounts'  BY <2>0, <2>3, <3>1, CreateAccounts
    <3> QED  BY <2>1, <2>3, <3>2 DEF createTask
  <2>4. ASSUME NEW sender \in Account, NEW t \in TaskId,
               NEW evidence \in EvidenceHash \cup {NoHash},
               NEW commit \in CommitHash \cup {NoHash}, NEW expiry \in Time,
               submitReceipt(sender, t, evidence, commit, expiry)
        PROVE  AccountingInv'
    <3>1. CurrentAccounts'  BY <2>0, <2>4, SubmitAccounts
    <3> QED  BY <2>1, <2>4, <3>1 DEF submitReceipt
  <2>5. ASSUME NEW sender \in Account, NEW t \in TaskId, approveTask(sender, t)
        PROVE  AccountingInv'
    BY <2>2, <2>5 DEF approveTask, Active, Terminal
  <2>6. ASSUME NEW sender \in Account, NEW t \in TaskId,
               NEW reasonHash \in ReasonHash \cup {NoHash},
               rejectTask(sender, t, reasonHash)
        PROVE  AccountingInv'
    BY <2>2, <2>6 DEF rejectTask, Active, Terminal
  <2>7. ASSUME NEW sender \in Account, NEW t \in TaskId, cancelTask(sender, t)
        PROVE  AccountingInv'
    BY <2>2, <2>7 DEF cancelTask, Active, Terminal
  <2>8. ASSUME NEW sender \in Account, NEW t \in TaskId, expireTask(sender, t)
        PROVE  AccountingInv'
    BY <2>2, <2>8 DEF expireTask, Active, Terminal
  <2>9. ASSUME NEW sender \in Account, withdraw(sender)
        PROVE  AccountingInv'
    <3>1. CurrentAccounts'  BY <2>0, <2>9, WithdrawAccounts
    <3>2. call'.saved = Snapshot  BY <2>9 DEF withdraw
    <3>3. SavedAccounts'
      BY <2>0, <3>2, SnapshotFields DEF CurrentAccounts, SavedAccounts
    <3> QED  BY <3>1, <3>3 DEF AccountingInv
  <2>10. CASE withdrawReturns
    <3>1. CurrentAccounts'
      BY <2>0, <2>10 DEF withdrawReturns, storage, events, CurrentAccounts
    <3> QED  BY <2>10, <3>1 DEF AccountingInv, withdrawReturns
  <2>11. CASE withdrawFails
    <3>1. SavedAccounts  BY <2>11 DEF AccountingInv, withdrawFails
    <3>2. CurrentAccounts'
      BY <2>11, <3>1 DEF SavedAccounts, CurrentAccounts, withdrawFails
    <3> QED  BY <2>11, <3>2 DEF AccountingInv, withdrawFails
  <2>12. ASSUME NEW digest \in Attestation, Attest(digest)
         PROVE  AccountingInv'
    <3>1. CurrentAccounts'
      BY <2>0, <2>12 DEF Attest, storage, events, CurrentAccounts
    <3> QED  BY <2>1, <2>12, <3>1 DEF Attest
  <2>13. CASE ForceFunds
    <3>1. CurrentAccounts'
      BY <2>0, <2>13 DEF ForceFunds, storage, CurrentAccounts, Accounts, StateTypes
    <3> QED  BY <2>1, <2>13, <3>1 DEF ForceFunds
  <2>14. CASE Tick
    <3>1. CurrentAccounts'
      BY <2>0, <2>14 DEF Tick, storage, events, CurrentAccounts
    <3> QED  BY <2>1, <2>14, <3>1 DEF Tick
  <2>15. CASE UNCHANGED vars
    <3>1. CurrentAccounts'
      BY <2>0, <2>15 DEF vars, storage, events, CurrentAccounts
    <3> QED  BY <2>1, <2>15, <3>1 DEF vars
  <2> QED
    BY <2>3, <2>4, <2>5, <2>6, <2>7, <2>8, <2>9, <2>10, <2>11, <2>12, <2>13,
       <2>14, <2>15 DEF Next
<1> QED  BY <1>1, <1>2, TypeCorrect, PTL DEF Spec

\* The balance covers the locked rewards and the credits, and what exceeds
\* them was forced into the contract, also in the middle of a transfer.
THEOREM SolvencyHolds == Spec => []Solvency
<1>1. AccountingInv => Solvency
  BY DEF AccountingInv, CurrentAccounts, Accounts, Solvency
<1> QED  BY <1>1, AccountingCorrect, PTL

\* totalLockedRewards is the sum of the rewards of the active tasks, and each
\* active task holds its whole deposit.
THEOREM LockedRewardsExactHolds == Spec => []LockedRewardsExact
<1>1. AccountingInv => LockedRewardsExact
  BY DEF AccountingInv, CurrentAccounts, Accounts, LockedRewardsExact, IsTotal,
         Rewards, Held
<1> QED  BY <1>1, AccountingCorrect, PTL

\* totalWithdrawable is the sum of the credits.
THEOREM CreditsExactHolds == Spec => []CreditsExact
<1>1. AccountingInv => CreditsExact
  BY DEF AccountingInv, CurrentAccounts, Accounts, CreditsExact, IsTotal
<1> QED  BY <1>1, AccountingCorrect, PTL

\* Every reward is credited once, to the account its settlement names, and
\* withdrawn at most once, whatever receivers do when they are paid.
THEOREM RewardPaidOnceHolds == Spec => []RewardPaidOnce
<1>1. AccountingInv => RewardPaidOnce
  <2> SUFFICES ASSUME AccountingInv, NEW a \in Account
               PROVE  withdrawable[a] + paid[a] = Total(RewardOwed(Snapshot, a))
    BY DEF RewardPaidOnce
  <2>1. RewardOwed(Snapshot, a) = Owed(tasks, deposit, a)
    BY SnapshotFields DEF RewardOwed, Beneficiary, Owed
  <2> QED
    BY <2>1 DEF AccountingInv, CurrentAccounts, Accounts, Entitled, IsTotal
<1> QED  BY <1>1, AccountingCorrect, PTL

--------------------------------------------------------------------------------
\* Tasks, their receipts, and the ledger the contract implements.

\* How a record may change, in any number of calls.
Evolves(old, new) ==
    /\ old.status \in Terminal => new = old
    /\ old.status # "None" =>
          /\ new.status # "None"
          /\ new.creator = old.creator
          /\ new.assignee = old.assignee
          /\ new.deadline = old.deadline
          /\ new.taskHash = old.taskHash
          /\ new.policyHash = old.policyHash
    /\ old.evidenceHash # NoHash =>
          /\ new.evidenceHash = old.evidenceHash
          /\ new.commitHash = old.commitHash

\* ReceiptAttested for one task of given tables.
Consumed(used, t) == {d \in used : d.taskId = t}

AttestedBy(d, task, at) ==
    /\ d.taskHash = task.taskHash
    /\ d.policyHash = task.policyHash
    /\ d.assignee = task.assignee
    /\ d.evidenceHash = task.evidenceHash
    /\ d.commitHash = task.commitHash
    /\ at <= d.attestationExpiry
    /\ task.deadline # 0 => at <= task.deadline

Attested(task, used, at, sgn, t) ==
    IF task.status \in HasReceipt
      THEN \E d \in sgn : Consumed(used, t) = {d} /\ AttestedBy(d, task, at)
      ELSE Consumed(used, t) = {}

\* A task has no evidence before its receipt, and there is none before createTask.
SoundTask(task, used, at, sgn, next, t) ==
    /\ t >= next => task = NoTask
    /\ task.status \in {"None", "Open"} => task.evidenceHash = NoHash
    /\ Attested(task, used, at, sgn, t)

Sound(tk, used, at, sgn, next) ==
    \A t \in TaskId : SoundTask(tk[t], used, at[t], sgn, next, t)

SoundNow == Sound(tasks, usedAttestations, receiptAt, signed, nextTaskId)

\* What a failing transfer falls back to is sound, too, and what the calls
\* inside the transfer have made of it, they may keep.
SavedOK ==
    call # NotCalling =>
        /\ Sound(call.saved.tasks, call.saved.usedAttestations, call.saved.receiptAt, signed,
                 call.saved.nextTaskId)
        /\ \A t \in TaskId : Evolves(call.saved.tasks[t], tasks[t])

RInv == TypeOK /\ SoundNow /\ SavedOK

\* What a step does to the tasks, unless it undoes a transfer.
Advances ==
    /\ Sound(tasks', usedAttestations', receiptAt', signed', nextTaskId')
    /\ \A t \in TaskId : Evolves(tasks[t], tasks'[t])
    /\ signed \subseteq signed'
-------------------------------------------------------------------------------
\* A receipt stays attested when the verifier signs more.
LEMMA SoundWithMoreSigned ==
    ASSUME NEW tk, NEW used, NEW at, NEW sgn, NEW more, NEW next,
           Sound(tk, used, at, sgn, next), sgn \subseteq more
    PROVE  Sound(tk, used, at, more, next)
BY DEF Sound, SoundTask, Attested

\* One task changes, and nothing is attested for another.
LEMMA OneTaskAdvances ==
    ASSUME RInv, NEW t \in TaskId, NEW new \in CreatedTask, UNCHANGED signed,
           tasks' = [tasks EXCEPT ![t] = new],
           Evolves(tasks[t], new),
           nextTaskId' \in Int, nextTaskId <= nextTaskId', t < nextTaskId',
           new.status = "Open" => new.evidenceHash = NoHash,
           \A x \in TaskId : x # t => /\ Consumed(usedAttestations', x) = Consumed(usedAttestations, x)
                                     /\ receiptAt'[x] = receiptAt[x],
           Attested(new, usedAttestations', receiptAt'[t], signed, t)
    PROVE  Advances
<1> USE DEF RInv
<1>1. tasks \in [TaskId -> Task] /\ nextTaskId \in Int
  BY SnapshotTypes DEF TypeOK, StateTypes
<1>2. tasks'[t] = new /\ \A x \in TaskId : x # t => tasks'[x] = tasks[x]
  BY <1>1
<1>3. new.status # "None"  BY DEF CreatedTask, Active, Terminal
<1>4. SoundTask(new, usedAttestations', receiptAt'[t], signed, nextTaskId', t)
  BY <1>3, BoundAssumption DEF SoundTask
<1>5. ASSUME NEW x \in TaskId, x # t
      PROVE  SoundTask(tasks[x], usedAttestations', receiptAt'[x], signed, nextTaskId', x)
  <2>1. SoundTask(tasks[x], usedAttestations, receiptAt[x], signed, nextTaskId, x)
    BY DEF SoundNow, Sound
  <2>2. x >= nextTaskId' => x >= nextTaskId  BY <1>1, BoundAssumption
  <2>3. Attested(tasks[x], usedAttestations', receiptAt'[x], signed, x)
    BY <1>5, <2>1 DEF SoundTask, Attested
  <2> QED  BY <2>1, <2>2, <2>3 DEF SoundTask
<1>6. \A x \in TaskId : Evolves(tasks[x], tasks'[x])
  BY <1>2 DEF Evolves
<1>7. Sound(tasks', usedAttestations', receiptAt', signed', nextTaskId')
  BY <1>2, <1>4, <1>5 DEF Sound
<1> QED  BY <1>6, <1>7 DEF Advances

\* Settling keeps all a receipt rests on.
LEMMA SettleAdvances ==
    ASSUME RInv, NEW t \in TaskId, NEW status \in Terminal, NEW account \in Account,
           Settle(t, status, account), tasks[t].status \in Active,
           status \in HasReceipt <=> tasks[t].status \in HasReceipt
    PROVE  Advances
<1> USE DEF RInv
<1>1. StateTypes  BY SnapshotTypes DEF TypeOK
<1>2. tasks[t] \in CreatedTask
  BY <1>1, ExistingTask DEF Exists, Active
<1>3. PICK new \in CreatedTask :
          /\ tasks' = [tasks EXCEPT ![t] = new]
          /\ new.status = status
          /\ new.creator = tasks[t].creator /\ new.assignee = tasks[t].assignee
          /\ new.deadline = tasks[t].deadline
          /\ new.taskHash = tasks[t].taskHash /\ new.policyHash = tasks[t].policyHash
          /\ new.evidenceHash = tasks[t].evidenceHash /\ new.commitHash = tasks[t].commitHash
  <2> DEFINE e == [tasks[t] EXCEPT !.status = status, !.reward = 0]
  <2>1. 0 \in 0..RewardMax  BY BoundAssumption
  <2>2. /\ e \in CreatedTask
        /\ e.status = status
        /\ e.creator = tasks[t].creator /\ e.assignee = tasks[t].assignee
        /\ e.deadline = tasks[t].deadline
        /\ e.taskHash = tasks[t].taskHash /\ e.policyHash = tasks[t].policyHash
        /\ e.evidenceHash = tasks[t].evidenceHash /\ e.commitHash = tasks[t].commitHash
    BY <1>2, <2>1 DEF CreatedTask
  <2>3. tasks' = [tasks EXCEPT ![t] = e]  BY <1>1, <1>2 DEF Settle, StateTypes
  <2> QED  BY <2>2, <2>3
<1>4. UNCHANGED <<usedAttestations, receiptAt, signed, nextTaskId>>
  BY DEF Settle, events
<1>5. SoundTask(tasks[t], usedAttestations, receiptAt[t], signed, nextTaskId, t)
  BY DEF SoundNow, Sound
<1>6. Evolves(tasks[t], new)
  BY <1>3 DEF Evolves, Active, Terminal
<1>7. nextTaskId \in Int /\ t < nextTaskId
  <2>1. ~(t >= nextTaskId)  BY <1>5 DEF SoundTask, NoTask, Active
  <2> QED  BY <1>1, <2>1, BoundAssumption DEF StateTypes
<1>8. Attested(new, usedAttestations, receiptAt[t], signed, t)
  BY <1>3, <1>5 DEF SoundTask, Attested, AttestedBy
<1>9. new.status # "Open"  BY <1>3 DEF Terminal
<1>10. /\ nextTaskId' \in Int /\ nextTaskId <= nextTaskId' /\ t < nextTaskId'
       /\ UNCHANGED signed
  BY <1>4, <1>7
<1>11. \A x \in TaskId : /\ Consumed(usedAttestations', x) = Consumed(usedAttestations, x)
                         /\ receiptAt'[x] = receiptAt[x]
  BY <1>4
<1>12. Attested(new, usedAttestations', receiptAt'[t], signed, t)
  BY <1>4, <1>8
<1> QED  BY <1>3, <1>6, <1>9, <1>10, <1>11, <1>12, OneTaskAdvances

\* A creation leaves every existing task as it is and adds an open one.
LEMMA CreateAdvances ==
    ASSUME RInv, NEW sender \in Account, NEW value \in 0..(RewardMax + 1),
           NEW taskHash \in TaskHash \cup {NoHash}, NEW policyHash \in PolicyHash \cup {NoHash},
           NEW assignee \in Account \cup {NoAccount}, NEW deadline \in 0..MaxTime,
           createTask(sender, value, taskHash, policyHash, assignee, deadline)
    PROVE  Advances
<1> USE DEF RInv
<1> DEFINE new == [creator |-> sender, deadline |-> deadline,
                   status |-> "Open", assignee |-> assignee,
                   reward |-> value % (RewardMax + 1),
                   taskHash |-> taskHash, policyHash |-> policyHash,
                   evidenceHash |-> NoHash, commitHash |-> NoHash]
<1>1. StateTypes  BY SnapshotTypes DEF TypeOK
<1>2. /\ nextTaskId \in TaskId /\ nextTaskId' = nextTaskId + 1
      /\ tasks' = [tasks EXCEPT ![nextTaskId] = new]
      /\ UNCHANGED <<usedAttestations, receiptAt, signed>>
  BY <1>1, BoundAssumption DEF createTask, StateTypes
<1>3. new \in CreatedTask
  BY BoundAssumption DEF createTask, ValidTask, CreatedTask, Active
<1>4. new.status = "Open" /\ new.evidenceHash = NoHash  OBVIOUS
<1>5. SoundTask(tasks[nextTaskId], usedAttestations, receiptAt[nextTaskId], signed, nextTaskId,
                nextTaskId)
  BY <1>2 DEF SoundNow, Sound
<1>6. tasks[nextTaskId] = NoTask  BY <1>2, <1>5 DEF SoundTask
<1> HIDE DEF new
<1>7. Evolves(tasks[nextTaskId], new)
  BY <1>6 DEF Evolves, NoTask, Terminal
<1>8. Attested(new, usedAttestations, receiptAt[nextTaskId], signed, nextTaskId)
  BY <1>4, <1>5, <1>6 DEF SoundTask, Attested, NoTask, HasReceipt
<1>9. nextTaskId \in Int /\ nextTaskId' \in Int /\ nextTaskId <= nextTaskId' /\ nextTaskId < nextTaskId'
  BY <1>2, BoundAssumption
<1> QED  BY <1>2, <1>3, <1>4, <1>7, <1>8, <1>9, OneTaskAdvances

\* A receipt is stored with the attestation that submitReceipt checked.
LEMMA SubmitAdvances ==
    ASSUME RInv, NEW sender \in Account, NEW t \in TaskId,
           NEW evidence \in EvidenceHash \cup {NoHash},
           NEW commit \in CommitHash \cup {NoHash}, NEW expiry \in Time,
           submitReceipt(sender, t, evidence, commit, expiry)
    PROVE  Advances
<1> USE DEF RInv
<1> DEFINE digest == receiptAttestationDigest(t, evidence, commit, expiry)
<1>1. StateTypes  BY SnapshotTypes DEF TypeOK
<1>2. tasks[t] \in CreatedTask  BY <1>1, ExistingTask DEF submitReceipt
<1>3. /\ tasks[t].status = "Open" /\ now <= expiry
      /\ tasks[t].deadline # 0 => now <= tasks[t].deadline
      /\ digest \in signed
      /\ evidence # NoHash /\ commit # NoHash
      /\ usedAttestations' = usedAttestations \cup {digest}
      /\ receiptAt' = [receiptAt EXCEPT ![t] = now]
      /\ UNCHANGED <<nextTaskId, signed>>
  BY DEF submitReceipt, Unexpired, AwaitsReceipt, SignedByVerifier
<1>4. PICK new \in CreatedTask :
          /\ tasks' = [tasks EXCEPT ![t] = new]
          /\ new.status = "ReceiptSubmitted"
          /\ new.creator = tasks[t].creator /\ new.assignee = tasks[t].assignee
          /\ new.deadline = tasks[t].deadline
          /\ new.taskHash = tasks[t].taskHash /\ new.policyHash = tasks[t].policyHash
          /\ new.evidenceHash = evidence /\ new.commitHash = commit
  <2> DEFINE e == [tasks[t] EXCEPT !.evidenceHash = evidence, !.commitHash = commit,
                                   !.status = "ReceiptSubmitted"]
  <2>1. /\ e \in CreatedTask
        /\ e.status = "ReceiptSubmitted"
        /\ e.creator = tasks[t].creator /\ e.assignee = tasks[t].assignee
        /\ e.deadline = tasks[t].deadline
        /\ e.taskHash = tasks[t].taskHash /\ e.policyHash = tasks[t].policyHash
        /\ e.evidenceHash = evidence /\ e.commitHash = commit
    BY <1>2 DEF CreatedTask, Active
  <2>2. tasks' = [tasks EXCEPT ![t] = e]  BY <1>1, <1>2 DEF submitReceipt, StateTypes
  <2> QED  BY <2>1, <2>2
<1>5. SoundTask(tasks[t], usedAttestations, receiptAt[t], signed, nextTaskId, t)
  BY DEF SoundNow, Sound
<1>6. Consumed(usedAttestations, t) = {} /\ tasks[t].evidenceHash = NoHash
  BY <1>3, <1>5 DEF SoundTask, Attested, HasReceipt
<1>7. /\ digest.taskId = t
      /\ digest.taskHash = tasks[t].taskHash /\ digest.policyHash = tasks[t].policyHash
      /\ digest.assignee = tasks[t].assignee
      /\ digest.evidenceHash = evidence /\ digest.commitHash = commit
      /\ digest.attestationExpiry = expiry
  BY DEF receiptAttestationDigest
<1> HIDE DEF digest
<1>8. /\ Consumed(usedAttestations', t) = {digest}
      /\ \A x \in TaskId : x # t => Consumed(usedAttestations', x) = Consumed(usedAttestations, x)
  BY <1>3, <1>6, <1>7 DEF Consumed
<1>9. receiptAt'[t] = now /\ \A x \in TaskId : x # t => receiptAt'[x] = receiptAt[x]
  BY <1>1, <1>3 DEF StateTypes
<1>10. Attested(new, usedAttestations', receiptAt'[t], signed, t)
  <2>1. AttestedBy(digest, new, now)  BY <1>3, <1>4, <1>7 DEF AttestedBy
  <2>2. new.status \in HasReceipt  BY <1>4 DEF HasReceipt
  <2> QED  BY <1>3, <1>8, <1>9, <2>1, <2>2 DEF Attested
<1>11. Evolves(tasks[t], new)
  BY <1>3, <1>4, <1>6 DEF Evolves, Terminal
<1>12. nextTaskId \in Int /\ t < nextTaskId
  <2>1. ~(t >= nextTaskId)  BY <1>3, <1>5 DEF SoundTask, NoTask
  <2> QED  BY <1>1, <2>1, BoundAssumption DEF StateTypes
<1>13. /\ nextTaskId' \in Int /\ nextTaskId <= nextTaskId' /\ t < nextTaskId'
       /\ UNCHANGED signed /\ new.status # "Open"
  BY <1>3, <1>4, <1>12
<1> QED  BY <1>4, <1>8, <1>9, <1>10, <1>11, <1>13, OneTaskAdvances
-------------------------------------------------------------------------------
\* The steps that keep or change tasks, all but the failure of a transfer.
ForwardStep ==
    \/ \E sender \in Account, value \in 0..(RewardMax + 1),
          taskHash \in TaskHash \cup {NoHash},
          policyHash \in PolicyHash \cup {NoHash},
          assignee \in Account \cup {NoAccount}, deadline \in 0..MaxTime :
            createTask(sender, value, taskHash, policyHash, assignee, deadline)
    \/ \E sender \in Account, t \in TaskId,
          evidence \in EvidenceHash \cup {NoHash},
          commit \in CommitHash \cup {NoHash}, expiry \in Time :
            submitReceipt(sender, t, evidence, commit, expiry)
    \/ \E sender \in Account, t \in TaskId :
            \/ approveTask(sender, t) \/ cancelTask(sender, t) \/ expireTask(sender, t)
            \/ \E reasonHash \in ReasonHash \cup {NoHash} : rejectTask(sender, t, reasonHash)
    \/ \E sender \in Account : withdraw(sender)
    \/ withdrawReturns
    \/ \E digest \in Attestation : Attest(digest)
    \/ ForceFunds \/ Tick
    \/ UNCHANGED vars

\* Every step but a failed transfer moves the tasks forward.
LEMMA ForwardAdvances ==
    ASSUME RInv, ForwardStep
    PROVE  Advances
<1> USE DEF RInv
<1>1. CASE UNCHANGED <<tasks, usedAttestations, receiptAt, nextTaskId>> /\ signed \subseteq signed'
  <2>1. Sound(tasks', usedAttestations', receiptAt', signed', nextTaskId')
    BY <1>1, SoundWithMoreSigned DEF SoundNow
  <2>2. \A t \in TaskId : Evolves(tasks[t], tasks'[t])
    BY <1>1 DEF Evolves
  <2> QED  BY <1>1, <2>1, <2>2 DEF Advances
<1>2. ASSUME NEW sender \in Account, NEW t \in TaskId,
             \/ approveTask(sender, t) \/ cancelTask(sender, t) \/ expireTask(sender, t)
             \/ \E reasonHash \in ReasonHash \cup {NoHash} : rejectTask(sender, t, reasonHash)
      PROVE  Advances
  <2>1. StateTypes  BY SnapshotTypes DEF TypeOK
  <2>2. Exists(t)  BY <1>2 DEF approveTask, cancelTask, expireTask, rejectTask
  <2>3. tasks[t].creator \in Account /\ tasks[t].assignee \in Account
    BY <2>1, <2>2, ExistingTask DEF CreatedTask
  <2>4. CASE approveTask(sender, t)
    BY <2>3, <2>4, SettleAdvances DEF approveTask, Terminal, Active, HasReceipt
  <2>5. CASE \E reasonHash \in ReasonHash \cup {NoHash} : rejectTask(sender, t, reasonHash)
    BY <2>3, <2>5, SettleAdvances DEF rejectTask, Terminal, Active, HasReceipt
  <2>6. CASE cancelTask(sender, t)
    BY <2>3, <2>6, SettleAdvances DEF cancelTask, Terminal, Active, HasReceipt
  <2>7. CASE expireTask(sender, t)
    BY <2>3, <2>7, SettleAdvances DEF expireTask, Terminal, Active, HasReceipt
  <2> QED  BY <1>2, <2>4, <2>5, <2>6, <2>7
<1>3. ASSUME NEW sender \in Account, withdraw(sender) PROVE Advances
  BY <1>1, <1>3 DEF withdraw
<1>4. CASE withdrawReturns  BY <1>1, <1>4 DEF withdrawReturns, storage, events
<1>5. ASSUME NEW digest \in Attestation, Attest(digest) PROVE Advances
  BY <1>1, <1>5 DEF Attest, storage, events
<1>6. CASE ForceFunds \/ Tick  BY <1>1, <1>6 DEF ForceFunds, Tick, storage, events
<1>7. CASE UNCHANGED vars  BY <1>1, <1>7 DEF vars, storage, events
<1> QED
  BY <1>2, <1>3, <1>4, <1>5, <1>6, <1>7, CreateAdvances, SubmitAdvances DEF ForwardStep

\* Forward steps leave what is saved alone, or save what is there.
LEMMA ForwardSaves ==
    ASSUME RInv, ForwardStep, call' # NotCalling
    PROVE  \/ call' = call
           \/ call'.saved = Snapshot /\ UNCHANGED <<tasks, signed>> /\ call = NotCalling
<1>1. ASSUME NEW sender \in Account, withdraw(sender)
      PROVE  call'.saved = Snapshot /\ UNCHANGED <<tasks, signed>> /\ call = NotCalling
  BY <1>1 DEF withdraw
<1>2. ASSUME NEW sender \in Account, NEW t \in TaskId,
             \/ approveTask(sender, t) \/ cancelTask(sender, t) \/ expireTask(sender, t)
             \/ \E reasonHash \in ReasonHash \cup {NoHash} : rejectTask(sender, t, reasonHash)
      PROVE  call' = call
  BY <1>2 DEF approveTask, cancelTask, expireTask, rejectTask, Settle
<1>3. ASSUME NEW sender \in Account, NEW value, NEW taskHash, NEW policyHash, NEW assignee,
             NEW deadline, createTask(sender, value, taskHash, policyHash, assignee, deadline)
      PROVE  call' = call
  BY <1>3 DEF createTask
<1>4. ASSUME NEW sender, NEW t, NEW evidence, NEW commit, NEW expiry,
             submitReceipt(sender, t, evidence, commit, expiry)
      PROVE  call' = call
  BY <1>4 DEF submitReceipt
<1>5. ASSUME NEW digest, Attest(digest) PROVE call' = call
  BY <1>5 DEF Attest
<1>6. CASE ForceFunds \/ Tick \/ UNCHANGED vars
  BY <1>6 DEF ForceFunds, Tick, vars
<1>7. CASE withdrawReturns  BY <1>7 DEF withdrawReturns
<1> QED  BY <1>1, <1>2, <1>3, <1>4, <1>5, <1>6, <1>7 DEF ForwardStep

\* A failed transfer is the only step that goes back.
LEMMA NextIsForward == [Next]_vars => ForwardStep \/ withdrawFails
BY DEF Next, ForwardStep

\* The receipts, in the state and in the snapshot of a transfer, are attested.
LEMMA ReceiptsInvariant == Spec => []RInv
<1>1. Init => SoundNow /\ SavedOK
  BY DEF Init, SoundNow, SavedOK, Sound, SoundTask, Attested, Consumed, NoTask, HasReceipt
<1>2. RInv /\ [Next]_vars => SoundNow' /\ SavedOK'
  <2> SUFFICES ASSUME RInv, [Next]_vars PROVE SoundNow' /\ SavedOK'  OBVIOUS
  <2>1. CASE ForwardStep
    <3>1. Advances  BY <2>1, ForwardAdvances
    <3>2. SoundNow'  BY <3>1 DEF Advances, SoundNow
    <3>3. ASSUME call' # NotCalling
          PROVE  /\ Sound(call'.saved.tasks, call'.saved.usedAttestations, call'.saved.receiptAt,
                          signed', call'.saved.nextTaskId)
                 /\ \A t \in TaskId : Evolves(call'.saved.tasks[t], tasks'[t])
      <4>1. CASE call' = call
        <5>1. Sound(call'.saved.tasks, call'.saved.usedAttestations, call'.saved.receiptAt,
                    signed', call'.saved.nextTaskId)
          BY <3>1, <3>3, <4>1, SoundWithMoreSigned DEF RInv, SavedOK, Advances
        <5>2. ASSUME NEW t \in TaskId PROVE Evolves(call.saved.tasks[t], tasks'[t])
          <6>1. Evolves(call.saved.tasks[t], tasks[t]) /\ Evolves(tasks[t], tasks'[t])
            BY <3>1, <3>3, <4>1 DEF RInv, SavedOK, Advances
          <6> QED  BY <6>1 DEF Evolves, Terminal
        <5> QED  BY <4>1, <5>1, <5>2
      <4>2. CASE call'.saved = Snapshot /\ UNCHANGED <<tasks, signed>>
        <5>1. SoundNow /\ \A t \in TaskId : Evolves(tasks[t], tasks'[t])
          BY <3>1 DEF RInv, Advances
        <5> QED  BY <4>2, <5>1, SnapshotFields DEF SoundNow
      <4> QED  BY <2>1, <3>3, <4>1, <4>2, ForwardSaves
    <3> QED  BY <3>2, <3>3 DEF SavedOK
  <2>2. CASE withdrawFails
    BY <2>2 DEF withdrawFails, RInv, SavedOK, SoundNow
  <2> QED  BY <2>1, <2>2, NextIsForward
<1>3. Spec => []TypeOK  BY TypeCorrect
<1> QED  BY <1>1, <1>2, <1>3, PTL DEF Spec, RInv
-------------------------------------------------------------------------------
\* A receipt rests on one attestation of the verifier, over the commitments of
\* its own task, used in time (submitReceipt of DoneBondRegistry.sol).
THEOREM ReceiptAttestedHolds == Spec => []ReceiptAttested
<1>1. RInv => ReceiptAttested
  BY DEF RInv, SoundNow, Sound, SoundTask, Attested, AttestedBy, Consumed, ReceiptAttested
<1> QED  BY <1>1, ReceiptsInvariant, PTL

\* What the chain has of a task changes only as Evolves says, though a receiver
\* calls the registry again and then fails.
LEMMA CommittedEvolves ==
    ASSUME RInv, [Next]_vars, NEW t \in TaskId
    PROVE  Evolves(Committed.tasks[t], Committed'.tasks[t])
<1>1. Committed.tasks = IF call = NotCalling THEN tasks ELSE call.saved.tasks
  BY SnapshotFields DEF Committed
<1>2. Committed'.tasks = IF call' = NotCalling THEN tasks' ELSE call'.saved.tasks
  BY DEF Committed, Snapshot
<1>3. CASE ForwardStep
  <2>1. Evolves(tasks[t], tasks'[t])  BY <1>3, ForwardAdvances DEF Advances
  <2>2. CASE call' = NotCalling
    <3>1. CASE call = NotCalling  BY <1>1, <1>2, <2>1, <2>2, <3>1
    <3>2. CASE call # NotCalling
      <4>1. Evolves(call.saved.tasks[t], tasks[t])  BY <3>2 DEF RInv, SavedOK
      <4>2. Evolves(call.saved.tasks[t], tasks'[t])
        BY <2>1, <4>1 DEF Evolves, Terminal
      <4> QED  BY <1>1, <1>2, <2>2, <3>2, <4>2
    <3> QED  BY <3>1, <3>2
  <2>3. CASE call' # NotCalling
    <3>1. CASE call' = call  BY <1>1, <1>2, <2>3, <3>1 DEF Evolves
    <3>2. CASE call'.saved = Snapshot /\ UNCHANGED <<tasks, signed>> /\ call = NotCalling
      BY <1>1, <1>2, <2>3, <3>2, SnapshotFields DEF Evolves
    <3> QED  BY <1>3, <2>3, <3>1, <3>2, ForwardSaves
  <2> QED  BY <2>2, <2>3
<1>4. CASE withdrawFails
  BY <1>1, <1>2, <1>4 DEF withdrawFails, Evolves
<1> QED  BY <1>3, <1>4, NextIsForward

\* A settled task stays as it is (the status checks of every transition).
THEOREM TerminalIsFinalHolds == Spec => TerminalIsFinal
<1> DEFINE Step == \A t \in TaskId :
                     Committed.tasks[t].status \in Terminal =>
                         Committed'.tasks[t] = Committed.tasks[t]
<1>1. RInv /\ [Next]_vars => Step
  <2> SUFFICES ASSUME RInv, [Next]_vars, NEW t \in TaskId,
                      Committed.tasks[t].status \in Terminal
               PROVE  Committed'.tasks[t] = Committed.tasks[t]
    OBVIOUS
  <2>1. Evolves(Committed.tasks[t], Committed'.tasks[t])  BY CommittedEvolves
  <2> QED  BY <2>1 DEF Evolves
<1>2. RInv /\ [Next]_vars => [Step]_vars  BY <1>1
<1> QED  BY <1>2, ReceiptsInvariant, PTL DEF Spec, TerminalIsFinal

\* The parties, the deadline and the hashes of a task are set once (no function
\* of the contract writes them again).
THEOREM CommitmentsImmutableHolds == Spec => CommitmentsImmutable
<1> DEFINE Kept(old, new) == /\ old.status # "None" =>
                                  /\ new.status # "None"
                                  /\ new.creator = old.creator
                                  /\ new.assignee = old.assignee
                                  /\ new.deadline = old.deadline
                                  /\ new.taskHash = old.taskHash
                                  /\ new.policyHash = old.policyHash
                             /\ old.evidenceHash # NoHash =>
                                  /\ new.evidenceHash = old.evidenceHash
                                  /\ new.commitHash = old.commitHash
           Step == \A t \in TaskId : Kept(Committed.tasks[t], Committed'.tasks[t])
<1>1. RInv /\ [Next]_vars => Step
  <2> SUFFICES ASSUME RInv, [Next]_vars, NEW t \in TaskId
               PROVE  Kept(Committed.tasks[t], Committed'.tasks[t])
    OBVIOUS
  <2>1. Evolves(Committed.tasks[t], Committed'.tasks[t])  BY CommittedEvolves
  <2> QED  BY <2>1 DEF Evolves
<1>2. RInv /\ [Next]_vars => [Step]_vars  BY <1>1
<1> QED  BY <1>2, ReceiptsInvariant, PTL DEF Spec, CommitmentsImmutable
-------------------------------------------------------------------------------
(* The refinement of EscrowLedger. *)

HolderIn(task) ==
    CASE task.status = "None"   -> "unfunded"
      [] task.status \in Active -> "escrowed"
      [] OTHER -> IF task.status = "Approved" THEN task.assignee ELSE task.creator

PartiesIn(task) == {task.creator, task.assignee} \ {NoAccount}

\* How the ledger sees a record and its deposit change, in any number of calls.
Moves(old, stake, new, newStake) ==
    \/ /\ newStake = stake /\ PartiesIn(new) = PartiesIn(old)
       /\ \/ HolderIn(new) = HolderIn(old)
          \/ HolderIn(old) = "escrowed" /\ HolderIn(new) \in PartiesIn(old)
    \/ /\ HolderIn(old) = "unfunded" /\ PartiesIn(new) \subseteq Account
       /\ HolderIn(new) \in PartiesIn(new) \cup {"escrowed"}

\* What the calls inside a transfer have done since it began.
TransferOK ==
    call # NotCalling =>
        /\ \A t \in TaskId : Moves(call.saved.tasks[t], call.saved.deposit[t], tasks[t], deposit[t])
        /\ paid = [call.saved.paid EXCEPT ![call.receiver] =
                      call.saved.paid[call.receiver] + call.saved.withdrawable[call.receiver]]

\* Two changes make one.
LEMMA MovesTransitive ==
    ASSUME NEW a, NEW b, NEW c, NEW x, NEW y, NEW z,
           PartiesIn(a) \subseteq Account,
           Moves(a, x, b, y), Moves(b, y, c, z)
    PROVE  Moves(a, x, c, z)
BY MarkAssumption DEF Moves

\* A record has the parties its creator named.
LEMMA PartiesTyped ==
    ASSUME NEW task \in Task
    PROVE  PartiesIn(task) \subseteq Account
BY AddressAssumption DEF PartiesIn, Task, CreatedTask, NoTask

\* Each call funds a task, awards one, or leaves the ledger alone.
LEMMA ForwardMoves ==
    ASSUME RInv, ForwardStep, NEW t \in TaskId
    PROVE  Moves(tasks[t], deposit[t], tasks'[t], deposit'[t])
<1> USE DEF RInv
<1>1. StateTypes  BY SnapshotTypes DEF TypeOK
<1>2. tasks \in [TaskId -> Task] /\ deposit \in [TaskId -> Nat]  BY <1>1 DEF StateTypes
<1>3. CASE UNCHANGED <<tasks, deposit>>  BY <1>3 DEF Moves
<1>4. ASSUME NEW u \in TaskId, NEW status \in Terminal, NEW account, tasks[u].status \in Active,
             Settle(u, status, account)
      PROVE  Moves(tasks[t], deposit[t], tasks'[t], deposit'[t])
  <2> DEFINE e == [tasks[u] EXCEPT !.status = status, !.reward = 0]
  <2>1. tasks[u] \in CreatedTask  BY <1>1, <1>4, ExistingTask DEF Exists, Active
  <2>2. tasks' = [tasks EXCEPT ![u] = e] /\ deposit' = deposit
    BY <1>2, <1>4, <2>1 DEF Settle, events
  <2>3. e.status = status /\ e.creator = tasks[u].creator /\ e.assignee = tasks[u].assignee
    BY <2>1 DEF CreatedTask
  <2>4. tasks[u].creator \in Account /\ tasks[u].creator # NoAccount
    BY <2>1, AddressAssumption DEF CreatedTask
  <2>5. tasks[u].assignee \in Account /\ tasks[u].assignee # NoAccount
    BY <2>1, AddressAssumption DEF CreatedTask
  <2> HIDE DEF e
  <2>6. CASE t = u
    <3>1. tasks'[t] = e  BY <1>2, <2>2, <2>6
    <3>2. PartiesIn(e) = PartiesIn(tasks[u])  BY <2>3 DEF PartiesIn
    <3>3. HolderIn(tasks[u]) = "escrowed"  BY <1>4 DEF HolderIn, Active
    <3>4. HolderIn(e) \in {tasks[u].creator, tasks[u].assignee}
      BY <2>3 DEF HolderIn, Active, Terminal
    <3>5. HolderIn(e) \in PartiesIn(tasks[u])  BY <2>4, <2>5, <3>4 DEF PartiesIn
    <3> QED  BY <2>2, <2>6, <3>1, <3>2, <3>3, <3>5 DEF Moves
  <2>7. CASE t # u
    <3>1. tasks'[t] = tasks[t]  BY <1>2, <2>2, <2>7
    <3> QED  BY <2>2, <3>1 DEF Moves
  <2> QED  BY <2>6, <2>7
<1>5. ASSUME NEW sender \in Account, NEW value, NEW taskHash, NEW policyHash,
             NEW assignee \in Account \cup {NoAccount}, NEW deadline,
             createTask(sender, value, taskHash, policyHash, assignee, deadline)
      PROVE  Moves(tasks[t], deposit[t], tasks'[t], deposit'[t])
  <2> DEFINE n == nextTaskId
  <2>1. n \in TaskId  BY <1>1, <1>5 DEF createTask, StateTypes
  <2>2. tasks[n] = NoTask  BY <2>1 DEF SoundNow, Sound, SoundTask
  <2>3. /\ tasks'[n].status = "Open" /\ tasks'[n].creator = sender
        /\ tasks'[n].assignee = assignee
    BY <1>2, <1>5, <2>1 DEF createTask
  <2>4. \A u \in TaskId : u # n => tasks'[u] = tasks[u] /\ deposit'[u] = deposit[u]
    BY <1>2, <1>5 DEF createTask
  <2>5. CASE t = n
    <3>1. HolderIn(tasks[n]) = "unfunded"  BY <2>2 DEF HolderIn, NoTask, Active
    <3>2. HolderIn(tasks'[n]) = "escrowed"  BY <2>3 DEF HolderIn, Active
    <3>3. PartiesIn(tasks'[n]) \subseteq Account  BY <2>3 DEF PartiesIn
    <3> QED  BY <2>5, <3>1, <3>2, <3>3 DEF Moves
  <2>6. CASE t # n  BY <2>4, <2>6 DEF Moves
  <2> QED  BY <2>5, <2>6
<1>6. ASSUME NEW sender, NEW u \in TaskId, NEW evidence, NEW commit, NEW expiry,
             submitReceipt(sender, u, evidence, commit, expiry)
      PROVE  Moves(tasks[t], deposit[t], tasks'[t], deposit'[t])
  <2>1. tasks[u] \in CreatedTask /\ tasks[u].status = "Open" /\ deposit' = deposit
    BY <1>1, <1>6, ExistingTask DEF submitReceipt, AwaitsReceipt
  <2>2. /\ tasks'[u].status = "ReceiptSubmitted" /\ tasks'[u].creator = tasks[u].creator
        /\ tasks'[u].assignee = tasks[u].assignee
    BY <1>2, <1>6, <2>1 DEF submitReceipt, CreatedTask
  <2>3. CASE t = u
    BY <2>1, <2>2, <2>3 DEF Moves, HolderIn, PartiesIn, Active
  <2>4. CASE t # u
    <3>1. tasks'[t] = tasks[t]  BY <1>2, <1>6, <2>4 DEF submitReceipt
    <3> QED  BY <2>1, <3>1 DEF Moves
  <2> QED  BY <2>3, <2>4
<1> QED
  <2>1. ASSUME NEW sender \in Account, NEW u \in TaskId,
               \/ approveTask(sender, u) \/ cancelTask(sender, u) \/ expireTask(sender, u)
               \/ \E reasonHash \in ReasonHash \cup {NoHash} : rejectTask(sender, u, reasonHash)
        PROVE  Moves(tasks[t], deposit[t], tasks'[t], deposit'[t])
    BY <1>4, <2>1 DEF approveTask, cancelTask, expireTask, rejectTask, Active, Terminal
  <2>2. (\/ \E sender \in Account : withdraw(sender)
         \/ withdrawReturns \/ \E digest \in Attestation : Attest(digest)
         \/ ForceFunds \/ Tick \/ UNCHANGED vars) => UNCHANGED <<tasks, deposit>>
    BY DEF withdraw, withdrawReturns, Attest, ForceFunds, Tick, vars, storage, events
  <2> QED  BY <1>3, <1>5, <1>6, <2>1, <2>2 DEF ForwardStep

\* Only a withdrawal pays, or begins a transfer.
LEMMA ForwardPays ==
    ASSUME ForwardStep
    PROVE  \/ paid' = paid /\ call' \in {call, NotCalling}
           \/ \E sender \in Account : withdraw(sender)
<1>1. ASSUME NEW sender, NEW t,
             \/ approveTask(sender, t) \/ cancelTask(sender, t) \/ expireTask(sender, t)
             \/ \E reasonHash \in ReasonHash \cup {NoHash} : rejectTask(sender, t, reasonHash)
      PROVE  paid' = paid /\ call' = call
  BY <1>1 DEF approveTask, cancelTask, expireTask, rejectTask, Settle, events
<1>2. ASSUME NEW sender, NEW value, NEW taskHash, NEW policyHash, NEW assignee,
             NEW deadline, createTask(sender, value, taskHash, policyHash, assignee, deadline)
      PROVE  paid' = paid /\ call' = call
  BY <1>2 DEF createTask
<1>3. ASSUME NEW sender, NEW t, NEW evidence, NEW commit, NEW expiry,
             submitReceipt(sender, t, evidence, commit, expiry)
      PROVE  paid' = paid /\ call' = call
  BY <1>3 DEF submitReceipt
<1>4. ASSUME NEW digest, Attest(digest) PROVE paid' = paid /\ call' = call
  BY <1>4 DEF Attest, events
<1>5. CASE withdrawReturns \/ ForceFunds \/ Tick \/ UNCHANGED vars
  BY <1>5 DEF withdrawReturns, ForceFunds, Tick, vars, events
<1> QED  BY <1>1, <1>2, <1>3, <1>4, <1>5 DEF ForwardStep

\* What a transfer has paid, and made of the tasks, since it began.
LEMMA TransferInvariant == Spec => []TransferOK
<1>1. Init => TransferOK  BY DEF Init, TransferOK
<1>2. RInv /\ TransferOK /\ [Next]_vars => TransferOK'
  <2> SUFFICES ASSUME RInv, TransferOK, [Next]_vars, call' # NotCalling PROVE TransferOK'
    BY DEF TransferOK
  <2>1. ForwardStep  BY NextIsForward DEF withdrawFails
  <2>2. ASSUME NEW sender \in Account, withdraw(sender) PROVE TransferOK'
    <3>1. /\ call'.receiver = sender /\ call'.saved = Snapshot
          /\ UNCHANGED <<tasks, deposit>>
          /\ paid' = [paid EXCEPT ![sender] = paid[sender] + withdrawable[sender]]
      BY <2>2 DEF withdraw
    <3>2. /\ call'.saved.tasks = tasks /\ call'.saved.deposit = deposit
          /\ call'.saved.paid = paid /\ call'.saved.withdrawable = withdrawable
      BY <3>1, SnapshotFields
    <3>3. \A t \in TaskId : Moves(tasks[t], deposit[t], tasks[t], deposit[t])  BY DEF Moves
    <3> QED  BY <3>1, <3>2, <3>3 DEF TransferOK
  <2>3. CASE call' = call /\ paid' = paid
    <3>1. ASSUME NEW t \in TaskId
          PROVE  Moves(call.saved.tasks[t], call.saved.deposit[t], tasks'[t], deposit'[t])
      <4>1. /\ Moves(call.saved.tasks[t], call.saved.deposit[t], tasks[t], deposit[t])
            /\ Moves(tasks[t], deposit[t], tasks'[t], deposit'[t])
        BY <2>1, <2>3, ForwardMoves DEF TransferOK
      <4>2. call.saved.tasks[t] \in Task
        BY <2>3 DEF RInv, TypeOK, SnapshotSet
      <4>3. PartiesIn(call.saved.tasks[t]) \subseteq Account  BY <4>2, PartiesTyped
      <4> QED  BY <4>1, <4>3, MovesTransitive
    <3> QED  BY <2>3, <3>1 DEF TransferOK
  <2> QED  BY <2>1, <2>2, <2>3, ForwardPays
<1> QED  BY <1>1, <1>2, ReceiptsInvariant, PTL DEF Spec

\* What the chain has, in the terms of the ledger.
LEMMA CommittedFields ==
    /\ Committed.tasks = IF call = NotCalling THEN tasks ELSE call.saved.tasks
    /\ Committed.deposit = IF call = NotCalling THEN deposit ELSE call.saved.deposit
    /\ Committed.paid = IF call = NotCalling THEN paid ELSE call.saved.paid
    /\ Committed'.tasks = IF call' = NotCalling THEN tasks' ELSE call'.saved.tasks
    /\ Committed'.deposit = IF call' = NotCalling THEN deposit' ELSE call'.saved.deposit
    /\ Committed'.paid = IF call' = NotCalling THEN paid' ELSE call'.saved.paid
BY DEF Committed, Snapshot

\* A step of the registry moves every task of the ledger as a transaction may,
\* and at most one account collects, what it was awarded.
LEMMA LedgerStep ==
    ASSUME RInv, AccountingInv, TransferOK, [Next]_vars
    PROVE  /\ \A t \in TaskId : Moves(Committed.tasks[t], Committed.deposit[t],
                                     Committed'.tasks[t], Committed'.deposit[t])
           /\ \/ Committed'.paid = Committed.paid
              \/ \E a \in Account :
                    Committed'.paid = [Committed.paid EXCEPT ![a] =
                                          Total(Owed(Committed.tasks, Committed.deposit, a))]
<1> USE CommittedFields
<1>1. \A tk, dep : \A t \in TaskId : Moves(tk[t], dep[t], tk[t], dep[t])  BY DEF Moves
<1>2. CASE withdrawFails
  <2>1. /\ Committed'.tasks = Committed.tasks /\ Committed'.deposit = Committed.deposit
        /\ Committed'.paid = Committed.paid
    BY <1>2 DEF withdrawFails
  <2> QED  BY <1>1, <2>1
<1>3. CASE ForwardStep /\ call' # NotCalling
  <2>1. /\ Committed'.tasks = Committed.tasks /\ Committed'.deposit = Committed.deposit
        /\ Committed'.paid = Committed.paid
    <3>1. CASE call' = call  BY <1>3, <3>1
    <3>2. ASSUME NEW sender \in Account, withdraw(sender)
          PROVE  /\ Committed'.tasks = Committed.tasks /\ Committed'.deposit = Committed.deposit
                 /\ Committed'.paid = Committed.paid
      <4>1. call'.saved = Snapshot /\ call = NotCalling  BY <3>2 DEF withdraw
      <4> QED  BY <1>3, <4>1, SnapshotFields
    <3> QED  BY <1>3, <3>1, <3>2, ForwardPays
  <2> QED  BY <1>1, <2>1
<1>4. CASE ForwardStep /\ call' = NotCalling
  <2>1. paid' = paid
    <3>1. ASSUME NEW sender \in Account, withdraw(sender) PROVE FALSE
      <4>1. sender # NoAccount  BY AddressAssumption
      <4> QED  BY <1>4, <3>1, <4>1 DEF withdraw, NotCalling
    <3> QED  BY <1>4, <3>1, ForwardPays
  <2>2. \A t \in TaskId : Moves(tasks[t], deposit[t], tasks'[t], deposit'[t])
    BY <1>4, ForwardMoves
  <2>3. CASE call = NotCalling  BY <1>4, <2>1, <2>2, <2>3
  <2>4. CASE call # NotCalling
    <3>1. ASSUME NEW t \in TaskId
          PROVE  Moves(call.saved.tasks[t], call.saved.deposit[t], tasks'[t], deposit'[t])
      <4>1. Moves(call.saved.tasks[t], call.saved.deposit[t], tasks[t], deposit[t])
        BY <2>4 DEF TransferOK
      <4>2. call.saved.tasks[t] \in Task
        BY <2>4 DEF RInv, TypeOK, SnapshotSet
      <4>3. PartiesIn(call.saved.tasks[t]) \subseteq Account  BY <4>2, PartiesTyped
      <4> QED  BY <2>2, <4>1, <4>3, MovesTransitive
    <3>2. call.receiver \in Account  BY <2>4 DEF RInv, TypeOK
    <3> DEFINE r == call.receiver
               s == call.saved
    <3>3. IsTotal(s.withdrawable[r] + s.paid[r], Owed(s.tasks, s.deposit, r))
      BY <2>4, <3>2 DEF AccountingInv, SavedAccounts, Accounts, Entitled
    <3>4. Total(Owed(s.tasks, s.deposit, r)) = s.paid[r] + s.withdrawable[r]
      <4>1. s.withdrawable[r] \in Nat /\ s.paid[r] \in Nat
        BY <2>4, <3>2 DEF RInv, TypeOK, SnapshotSet
      <4> QED  BY <3>3, <4>1 DEF IsTotal
    <3>5. paid' = [s.paid EXCEPT ![r] = Total(Owed(s.tasks, s.deposit, r))]
      BY <2>1, <2>4, <3>4 DEF TransferOK
    <3> QED  BY <1>4, <2>4, <3>1, <3>2, <3>5
  <2> QED  BY <2>3, <2>4
<1> QED  BY <1>2, <1>3, <1>4, NextIsForward

\* The refinement mapping's holder and parties, record by record.
LEMMA MappingOf ==
    /\ \A t \in TaskId : HolderOf(t) = HolderIn(Committed.tasks[t])
    /\ \A t \in TaskId : HolderOf(t)' = HolderIn(Committed'.tasks[t])
BY DEF HolderOf, HolderIn, Beneficiary

\* The ledger awards an account what the registry owes it.
LEMMA AwardedIsOwed ==
    ASSUME NEW a \in Account,
           \A t \in TaskId : Committed.tasks[t].status \in Terminal \cup Active \cup {"None"}
    PROVE  Ledger!Awarded(a) = Total(Owed(Committed.tasks, Committed.deposit, a))
<1> DEFINE tk == Committed.tasks
           dep == Committed.deposit
<1>1. \A t \in TaskId : HolderOf(t) = a <=>
          /\ tk[t].status \in Terminal
          /\ (IF tk[t].status = "Approved" THEN tk[t].assignee ELSE tk[t].creator) = a
  BY MarkAssumption, MappingOf DEF HolderIn, Terminal, Active
<1>2. [t \in TaskId |-> IF [u \in TaskId |-> HolderOf(u)][t] = a THEN dep[t] ELSE 0]
        = Owed(tk, dep, a)
  BY <1>1 DEF Owed
<1>3. Ledger!Awarded(a) =
          Total([t \in TaskId |-> IF [u \in TaskId |-> HolderOf(u)][t] = a THEN dep[t] ELSE 0])
  BY DEF Ledger!Awarded, Ledger!Total, Ledger!Coins, Ledger!Cardinality, Total, Coins, Cardinality
<1> QED  BY <1>2, <1>3

\* Each transaction of the contract is one step of the ledger or none, with all
\* the calls a receiver makes while it is paid, and none of those of a receiver
\* that fails (withdraw of DoneBondRegistry.sol).
THEOREM ImplementsLedgerHolds == Spec => ImplementsLedger
<1>1. Init => Ledger!Init
  <2> SUFFICES ASSUME Init PROVE Ledger!Init  OBVIOUS
  <2>1. Committed.tasks = tasks /\ Committed.deposit = deposit /\ Committed.paid = paid
    BY CommittedFields DEF Init
  <2>2. \A t \in TaskId : HolderOf(t) = "unfunded"
    BY <2>1, MappingOf DEF Init, NoTask, HolderIn, Active
  <2>3. \A t \in TaskId : {Committed.tasks[t].creator, Committed.tasks[t].assignee} \ {NoAccount} = {}
    BY <2>1 DEF Init, NoTask
  <2> QED  BY <2>1, <2>2, <2>3 DEF Init, Ledger!Init
<1>2. RInv /\ AccountingInv /\ TransferOK /\ [Next]_vars
        => [Ledger!Transaction]_(Ledger!vars)
  <2> SUFFICES ASSUME RInv, AccountingInv, TransferOK, [Next]_vars
               PROVE  Ledger!Transaction
    OBVIOUS
  <2>1. ASSUME NEW t \in TaskId
        PROVE  Ledger!Stays(t) \/ Ledger!Award(t) \/ Ledger!Fund(t)
    <3>1. Moves(Committed.tasks[t], Committed.deposit[t], Committed'.tasks[t], Committed'.deposit[t])
      BY LedgerStep
    <3> QED
      BY <3>1, MappingOf
         DEF Moves, PartiesIn, Ledger!Stays, Ledger!Award, Ledger!Fund, Ledger!Keep
  <2>2. UNCHANGED Committed.paid \/ \E a \in Account : Ledger!Collect(a)
    <3>1. CASE Committed'.paid = Committed.paid  BY <3>1
    <3>2. ASSUME NEW a \in Account,
                 Committed'.paid = [Committed.paid EXCEPT ![a] =
                                       Total(Owed(Committed.tasks, Committed.deposit, a))]
          PROVE  Ledger!Collect(a)
      <4>1. \A x \in Task : x.status \in Terminal \cup Active \cup {"None"}
        BY DEF Task, CreatedTask, NoTask
      <4>2. Committed.tasks \in [TaskId -> Task]
        BY CommittedFields, SnapshotTypes DEF RInv, TypeOK, SnapshotSet, StateTypes
      <4> QED  BY <3>2, <4>1, <4>2, AwardedIsOwed DEF Ledger!Collect
    <3> QED  BY <3>1, <3>2, LedgerStep
  <2> QED  BY <2>1, <2>2 DEF Ledger!Transaction
<1> QED
  BY <1>1, <1>2, ReceiptsInvariant, AccountingCorrect, TransferInvariant, PTL
     DEF Spec, ImplementsLedger, Ledger!Spec
===============================================================================
