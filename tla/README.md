# DoneBond, specified in TLA+

DoneBond lets the owner of a project put a reward in escrow for a software task
on the Monad chain. The assignee verifies a commit on their own machine with
the command-line tool, which uploads an evidence bundle. The server checks it
and signs an attestation, the assignee submits it to the registry contract as
a receipt, and the creator approves (the reward goes to the assignee) or rejects.
This directory specifies the parts of that program that are hard to get right
and checks them: TLC on small instances, and TLAPS for instances of any size.

Run `tlc -config Registry.cfg MCDoneBondRegistry.tla` to check one
instance and `tlapm DoneBondRegistry_proofs.tla` to check the proofs.
`PROJECT.json` maps each definition to its lines of source.

## The system

| Part | State | Operations |
| --- | --- | --- |
| Registry contract (`packages/contracts/src/DoneBondRegistry.sol`) | tasks, `totalLockedRewards`, `totalWithdrawable`, credits, balance | create, submit receipt, approve, reject, cancel, expire, withdraw |
| Task and chain repository (`packages/db/src/task-chain-repository.ts`) | rows of `tasks`, `chain_transactions`, `contract_events`, `task_receipts` | create intents; record rejection, hash, replacement; confirm, revert, mark unknown |
| Web handlers (`apps/web/src/server/task-handlers.ts`, `receipt-handlers.ts`) | none of their own | check, call the repository, return the request for the wallet |
| Reconcilers, job (`task-reconciliation.ts`, `receipt-reconciliation.ts`, `reconciliation-job.ts`) | a snapshot of the queue while a run lasts | read a row, ask the RPC, store the verdict |
| Projects and policies (`project-policy-repository.ts`) | projects, members, policies, idempotency keys | create, update and archive, activate a policy |
| Authentication (`auth-repository.ts`, `wallet-auth.ts`) | challenges, sessions, wallet accounts | challenge, verify, read and extend a session, log out |
| CLI tokens (`cli-token-repository.ts`) | tokens | issue, authenticate, revoke |
| Rate limiters (`auth-rate-limiter.ts`) | one window per key | consume, clean up |
| Evidence storage (`repository.ts`, `evidence-handlers.ts`) | evidence bundles and checks | store, read |
| CLI and evidence package (`apps/cli`, `packages/evidence`) | the working tree, config, bundle files | verify, submit, receipt |
| Browser (`product-client.tsx`) | the page | ask the wallet to send, report its answer |

How they meet:

* The browser asks a handler for an intent. The handler has the repository store
  a `wallet_requested` row and returns the call to sign. The wallet broadcasts or
  refuses. The browser reports that in another request, which may never arrive.
* Only the chain knows whether a transaction was mined. The reconcilers ask it
  over RPC, outside any database transaction, then store what they learnt.
  The scheduled job and the reconcile endpoints run the same code, concurrently.
* The handlers hold no lock while they wait. Every repository operation is one
  database transaction that locks the row (`FOR UPDATE`) and checks again.
* The contract trusts the server for one thing, the verifier's signature.

What is hard: stale answers after an `await`; the same row reconciled twice;
what the wallet did and the server never heard of; replacements; a queue with a
limit; a receiver that calls back while it is paid; sums that must agree after
any sequence of calls. `PROJECT.json` lists these hazards at their lines.

What makes each part correct:

* Registry: the balance is what is locked, credited or was forced in; a reward is
  paid once, to the right party; a terminal task is final; a receipt is attested.
* Rows: one live transaction per task and kind; at most one escrow; the database
  never runs ahead of the chain; final rows are final; mined transactions are
  recorded in the end.
* Queue: a decided transaction is resolved however other rows fail.
* Policies, idempotency: one active policy; a retry never acts twice.
* Authentication: a challenge is used once; no use of a session after its
  revocation or expiry. Tokens: no upload is stored with a revoked token.
* Rate limiter: a window counts no more than its limit, no time as long as a window sees
  more than twice of it, and nobody is refused without cause.
* Verification: a bundle claims a commit only if the checks ran on it.

## Modules

| Module | Models |
| --- | --- |
| `CoinSums` | the sum of a function by counting coins, without recursion, so that it can be proved about |
| `EscrowLedger` | the abstract escrow: a reward is locked, goes to one party, is paid out |
| `DoneBondRegistry` | the contract |
| `DoneBondRegistryProps` | its properties and the refinement of `EscrowLedger` |
| `ChainTransactions` | the rows of `chain_transactions`, the handlers, the wallet, the chain and the reconcilers, for some tasks |
| `ChainTransactionsProps`, `ChainTransactionsLive` | safety; fairness and liveness |
| `ReconciliationQueue`, `ReconciliationQueueProps` | the job's oldest-first queue with its limit; what it promises |
| `ProjectPolicies`, `ProjectPoliciesProps` | projects, policies, drafts and idempotency keys |
| `TaskIntents` | extends these by the intents of an owner, what the wallet did with them, and replacements, as far as idempotency keys go |
| `EvidenceIntake`, `EvidenceIntakeProps` | submissions with their retries, CLI tokens, and the attestation of the newest evidence |
| `VerificationRun`, `VerificationRunProps` | `donebond verify` and `submit`, the processes of a check, and an assignee who goes on working |
| `CliConnection` | `donebond init` and `task pull` against the routes they read, and the property of that |
| `WalletSessions`, `WalletSessionsProps` | signing in with a wallet and the sessions that result; what they promise |
| `RateLimits`, `RateLimitsProps` | the rate limiters and the cleanup of their table; what they promise |
| `MC*` | instances for TLC |
| `*_proofs` | theorems |

The modules meet at what one hands to another. `ChainTransactions` starts from
the drafts of `ProjectPolicies`; its receipts are the intents of
`EvidenceIntake`, whose bundles `VerificationRun` makes; its chain is a small
copy of `DoneBondRegistry` (the status of a task). Each keeps only what it
needs of the others, because their product would be out of TLC's reach.

### The registry

A transaction is one step, except a withdrawal, which hands control over in the
middle: `withdraw` clears the credit, pays, and keeps in `call` a snapshot of
the state before it; any calls of the receiver follow (`CanCall`; `nonReentrant`
guards only `withdraw`, so a contract that is being paid may create, settle or
cancel); then `withdrawReturns`, or `withdrawFails`, which restores the snapshot.
A call that reverts is no step. Hashes, signers and signatures are model
values: an attestation is the record that is signed (`receiptAttestationDigest`
includes task, content, assignee, deadline, chain and contract), and `attestations`
is the set the verifier has signed so far. Time only moves on.

### The rows of chain transactions

The database part of a step is atomic, because the code runs it in one
transaction with the row locked. The reconcilers are split at the RPC call: `getReconciliationContext`
reads the row, `getReceipt` gets an answer, and the last step writes; other steps
of anybody can come in between. Each `Worker` is one such thread; `cron` is the
scheduled job. RPC failures are an answer (`unknown`). The wallet can refuse, send, send
again with the same nonce (speed-up or cancel), and every report can be lost.
The chain mines one transaction per nonce, and it may revert.

### The queue

`queue` is the pending rows, oldest `updatedAt` first; writing a row moves it to
the end. A run takes the first `Limit` rows, visits them one by one, and can be
cut off. `Stuck` are the rows whose reconciliation can only say the same thing
again. Such a visit writes nothing, so they stay at the head.

### Projects, policies and drafts

A request may arrive any number of times, in any order with others of the same
owner: the actions take key and content from constants and stay enabled. Each is
one transaction under the project's lock, hence one step: `reserveIdempotencyKey`
(a `Slot` is an operation and a key), the change, the audit row, and
`completeReservation`, which stores the answer that a replay gets. Only the draft of a
task is two steps: `getCreationContext` reads project and policy without a lock
and computes the hash, `createTask` stores it and compares what it read
(`ContextHolds`). `answers` and `audits` are history. A request that is refused
changes nothing and is no step.

`TaskIntents` adds what follows a draft. An intent is two steps too: the handler
looks at the task without a lock (`admit`), and then the transaction inserts the row,
whose unique index is the reservation (`TakesKey`), or finds its key
taken. So a retry that comes after the intent is refused by the handler,
one that was let through before is replayed, and one that comes after the wallet has rejected
the first finds the task a draft again. A replacement takes a key of
the intents. Deadlines and the fate of a transaction stay in `ChainTransactions`.

### Evidence, tokens and receipts

`uploads` has an entry for each attempt of each run of `donebond submit`: the tool
gives up waiting and tries again (`TryAgain`), but the abandoned attempt is still
on its way. The server works on it in the steps between which the code awaits:
authenticate, begin (`created_at` is the time at which a transaction begins),
store. `persistEvidence` locks the task and checks the token again
(`TokenBinds`). A replay is one of the same bundle under the same token; under
another token the insert fails on its unique index and the tool is told to try again.
A request for a receipt reads the newest passing bundle and signs
(`signAttestation`), then stores the intent, which reads the newest again
(`Storable`), or finds that its key already has one and gets no calldata
(`WalletRequest`). `follows` and `acknowledged` are history: what a
sender could know about the order of bundles.

### Verification

HEAD, the index and the working tree are functions from files to contents, which
are numbered in the order in which they are first written (`absent`: the content of a
file that is not there). The assignee edits, undoes, stages (`add`), unstages, commits and
checks out at any time. `verification` holds what `verify-command.ts` has read so far. A look
at the repository (`collectGitState`) is HEAD and then three Git processes side by side
(`git.ts:209-213`), each a step of its own (`gitDiff`): the index against HEAD, the tracked files against the
index, the untracked files (`Shown`). There are two looks, before and after the checks, and both must
find the tree clean: Policy V1 admits no other (`requireCleanWorkingTree: z.literal(true)`).
A bundle that does not pass is submitted no more than a diagnostic, and both
are `NoBundle`. `check` is the
process group of the check that runs: the child may hang, fork a process that
holds its output (`lingering`), ignore SIGTERM (`Terminated`) or flood its output
(`appendChunk`); the runner's timers send SIGTERM and SIGKILL, and `closeCheck`
is the `close` event. `othersRan`, `moved`, `stagedSince` and `returns` are history; the last
three name what two such looks cannot see: a HEAD that moved between the reads of the last
one, something staged between its processes, a file that went back. It is the POSIX branch of the runner; files
that Git ignores are not seen by it and are not part of the content; and a
descendant that leaves the process group and keeps the pipe open is assumed away.

### The connection of the tool

`initializeRepository` sends a request with the token, reads the answer, and
stores project and token in two files, one after the other; `pullTask` loads both
and asks for a task. The routes are those of the browser: `authenticate` is what
`requireProjectAccess` accepts.

### Sign-in and sessions

A request is split at every `await`. A login finds its challenge, has the signature
accepted, consumes the challenge with one conditional `UPDATE`, finds or claims the
wallet's user, and creates a session; `logins` keeps what it has got so far. Any
number of logins overlap, and each can be cut off between two steps (`loseLogin`).
The transaction of `findOrCreateVerifiedWallet` is two steps, because at READ
COMMITTED its first query may miss a row that its `INSERT` then runs into. A
request with a cookie (`Visit`) reads the clock (`arrive`) and sends its `UPDATE`
at any later time, so that a statement may carry an old time. One
clock stands for those of all servers, as the code assumes. Digests, nonces and
signatures are abstracted: a wrong one is `refuseLogin`, a wrong CSRF token a
`forged` visit. A request that its rate limiter refuses is no step.

### The rate limiters

A request passes a global and then a subject limiter, with the time it read when it
arrived. `consume` is the conditional upsert. The wrapper counts down
(`requestsUntilCleanup`) and at zero deletes expired rows. `consumed` is a history:
how many attempts were allowed, by key and moment of real time, so that the
properties speak of what callers see and not of the rows.

## What the runs show

| Run | Bounds | Result |
| --- | --- | --- |
| registry | 2 accounts (1 contract), 2 tasks, 1 hash of each kind, reward <= 1, 1 attestation, 1 unit forced in, times 1..3 | holds |
| chain_transactions | 1 task, 3 rows, 2 hashes, cron and API | holds |
| chain_member_receipt | 2 rows, assignee not the owner | violated: finding |
| chain_rejected_receipt | 3 rows | violated: finding |
| queue_few_stuck | 3 rows, 1 stuck, limit 2, 2 aborts | holds |
| projects | 1 project, 2 keys for policies, tasks, intents and outcomes, 1 for updates and activations, 2 repositories, 2 hashes, 2 drafts at a time | holds |
| evidence | 2 runs with 2 attempts, 2 tokens, 2 bundles, 2 requests for 1 receipt, 3 stores | holds |
| verification | 1 check, 2 files (1 tracked, 1 new), 2 contents of each, 1 return | holds |
| cli_pull_refused | 2 projects, 1 token | violated: finding |
| sessions | 2 wallets, 2 challenges, 2 logins, 2 visits, idle 2, absolute 3, times 0..4 | holds |
| rate_limits_hold | 2 requests at a time, limits 2 and 1, window 3, lateness 1, times 0..5 | holds |
| rate_limits_cleanup | the same | violated: finding |

What each passing run asks:

* registry: is every coin accounted for (`Solvency`, `LockedRewardsExact`,
  `CreditsExact`, `RewardPaidOnce`), does every receipt rest on one attestation
  (`ReceiptAttested`), do records stay what they were (`TerminalIsFinal`,
  `CommitmentsImmutable`), and does the contract implement `EscrowLedger`
  (`ImplementsLedger`), all with calls nested in a transfer that may fail?
* chain_transactions: do retries, refusals, speed-ups, cancellations and stale answers leave
  one live row, one escrow, a database that follows the chain, and one event for each
  confirmed row? Is a mined transaction recorded in the end (`MinedIsRecorded`)?
* queue_few_stuck: is a decided row resolved while fewer rows are stuck than a
  run takes on?
* projects: does a key act once and answer alike, from the project to the
  replacement of an intent, and does a stored draft agree with its
  project and the active policy?
* evidence: is what is reported stored, stored; is what a wallet signs the
  attestation on record; is it of evidence that was not out of date; is nothing stored
  under a revoked token?
* verification: is a passing bundle about its commit unless HEAD moved or something was
  staged between the reads of the last look, or something went back; is what leaves the machine so
  even when HEAD moved there; and does each check end?
* sessions, rate_limits_hold: as in the list above (*What makes each part correct*).

The type invariants of the registry, the sessions and the evidence are theorems
(`TypeCorrect`) and part of no run.

Why the bounds are enough to mean something: the contract treats tasks alike and
one call touches one of them, so two tasks show every confusion of one with another;
two accounts, one a contract, show every exchange of parties and the nested calls
(a third account would only repeat one of them). A creation, a replacement of it
and a receipt, or a creation and two receipts, are the three rows it takes for every
interaction of the row machine, and two hashes are two transactions that compete for
a nonce or follow each other. Three queue rows
are one stuck, one decided and one touched by a user. Two keys are a request
and another that undoes or overtakes it, each any number of times; a second key for
updates and activations would undo the first again, which other keys already show. Two runs of two attempts are an
upload that overlaps its own retry and one of another run, with the same bundle or a
newer one; three stores are both bundles and an abandoned attempt. A tracked file and a new one
are what each Git process can list, alone and together, with one of them staged and the other
not; two contents are one that is and one that is not the commit's; once something has gone back the
properties of bundles say nothing more. One check is enough for
`CheckEnds`, since each starts alike; the safety of a sequence of checks is in the theorems. Two logins
race for one challenge, or for one wallet with a challenge each; two visits are a logout and an access that
overlaps it or comes after it. The theorems lift these bounds for every safety property
but that of the connection.
The times of the limiters are two windows long, and a statement is late by at
most `MaxLate`, less than a window (ten minutes in the code): without such a limit
no rate could be promised, because a very late statement can reopen a window that
the cleanup has removed. `RateHolds` says what remains true: twice the limit in
any stretch of a window less the lateness.

Deadlock is checked in verification, where the assignee can always go on, and in
cli_pull_refused. In the other runs the bounds run out, and the system may
stop in any state in which nobody does anything.

Fairness.

* chain_transactions: a run does not stay with one row for ever (`RunsEnd`), and a row to which
  the cron schedule returns for ever gets an RPC answer in the end and is written
  (`CronReturnsTo`; strong fairness, because the row can change in between). The latter is the
  premise of `MinedIsRecorded`, row by row: what becomes of a row depends on no other row.
  Nothing is assumed of the user, the chain, the browser or the API.
  chain_member_receipt assumes it of all rows, and that the browser reports what the wallet did.
* queue_few_stuck: runs start again for ever, only `MaxAborts` are cut off, and a
  row that is visited again and again does not fail for ever.
* verification (`RunnerFairness`): the timers of `runner.ts` fire and the `close` event comes once the pipe
  is closed. The checks themselves may hang for ever.

Without these no progress could be claimed.

### Findings

The four violated runs state what a comment or document says and the code does not
do; `PROJECT.json` quotes each one. The latest is rate_limits_cleanup: the countdown of
a limiter's cleanup is compared with zero and reset only after the cleanup has
succeeded, so once one has failed, the next attempt takes the countdown below zero and that
process never cleans up again (`auth-runtime.ts:41`). It costs rows of a table and
no attempt; the rate holds all the same.

While modelling, three more things came up that no run is spent on; the hazards list them:

* After a creation has been replaced in the wallet and the earlier transaction is
  the one that is mined, its row is `replaced`, hence out of the queue, and the new one stays
  `unknown_reconcile`: the task never opens (`task-chain-repository.ts:1493`).
  `Decided` in `MinedIsRecorded` therefore names the rows that can tell.
* Rows whose visit writes nothing stay at the head of the queue: as many of them as a run
  takes on keep every other row waiting (`task-chain-repository.ts:1863`).
  `DecidedIsResolved` therefore assumes fewer (`Stuck`).
* The three Git processes of a look do not see one state of the index. A file that is edited
  during a check and staged once `git diff --cached` has looked, but before `git diff` has,
  is listed by neither (a new file likewise by `git ls-files`): the tree counts as clean, HEAD
  has not moved, and a passing bundle is written and posted although a check ran on
  something else (`packages/evidence/src/git.ts:209`). No document promises one
  instant, so this is the exception `stagedSince` in `VerifiedRanOnCommit` and
  `SubmittedRanOnCommit`; without it TLC finds this run.

## What is proved

Each proof follows one pattern: an inductive invariant `IInv` (`AccountingInv` and
`RInv` for the registry), one lemma per action or group of actions, and the
listed theorems as consequences. The assumptions are the `ASSUME`s of the module
alone (bounds are naturals, null values such as `NoWindow` and `NoTransaction` are not
values; one more is named below): sets of accounts, tasks, rows,
hashes, workers, keys, runs and requests are arbitrary.

`DoneBondRegistry_proofs`: types, solvency, the two counters and `RewardPaidOnce`.
The accounting is not inductive as stated: a transfer that fails restores an
earlier state. The invariant (`AccountingInv`) therefore also says that the
snapshot in `call` satisfies the same accounting. Sums are the number of coins
(`CoinSums`), so that a change of one term changes the sum by a cardinality argument
(`TotalOfUpdate`) and no induction is needed.

The same module proves `ReceiptAttested`, `TerminalIsFinal` and
`CommitmentsImmutable`, from `RInv`: receipts are attested now and in the
snapshot, and each record has only gone forward (`Evolves`) since the snapshot,
so that undoing a transfer contradicts nothing. And the refinement, `ImplementsLedger`:
a call is one step of the ledger or none; a transfer is its pay-out when it returns, together
with what the nested calls moved (`TransferOK`); one that fails is a
stutter.

`ChainTransactions_proofs`: every safety property of chain_transactions, for any number of
tasks, rows, broadcasts and reconcilers. `OneLiveTransaction` is not
inductive: the invariant adds that rows of one nonce are about the same call
(`NonceOfRow`), that a wallet is asked about the row itself (`RequestsOK`), that
what was broadcast was asked for (`SentOK`), that a nonce is mined once (`NoncesOK`), that all
creations of a task that were not rejected go back to one row (`CreationsOK`), whence
one escrow, and that what a reconciler holds after its RPC call is still
true of what never changes (`WorkOK`), whence a stale answer does no harm.

`EvidenceIntake_proofs`: the four properties and the types. An answer on its way is already
about a stored row (`AnswersOK`), and what was sent after an acknowledgement is
newer in the database's order, stored or about to be (`OrderOK`), which is
what makes the second read of the newest bundle enough.

`ProjectPolicies_proofs`: a reservation is the answer given and the one effect
(`ReservedOK`); every row was made under its key (`NamedOK`); what a request
has read of a policy stays true, since policies never change (`CallsOK`). The theorems are
about `IntentSpec`, with the intents: the invariant `ChainIInv` adds that a transaction
has taken its key and its task was drafted (`IntentTypeOK`), without which a replay would have no
row to look at. `SlotStepKeeps` states once what every step of a request does: it reserves and
answers, or replays, and touches no other key.

`VerificationRun_proofs`, for any number of checks, files and contents: as long as nothing goes back,
HEAD, the index and the working tree only move forward, file by file and in this order (`TreeOK`), so a check
that read anything else left a file that differs from the commit for good (`RunOK`).
That file is staged, or tracked, or untracked. A process of the last look that lists nothing
leaves it to the others, whatever is edited between them, and all three cannot (`LookOK`)
unless something is staged in between. Hence HEAD had moved, and has left the
bundle's commit behind for good (`Left`), which the submission sees.

`WalletSessions_proofs` proves the types and all six properties of sign-in and
sessions for any set of requests, challenges and wallets and any time-outs with
the idle one at most the absolute one (`TimeAssumption`). The invariant `IInv`
relates the stages of requests to the rows: a login past `consume` is the
only one that holds its challenge, whose `consumedAt` is the time it read; a
candidate user exists only while it owns a wallet; a visit's time is
not after the clock; a session's row keeps the lifetime. `OneSessionPerChallenge`
is not inductive without the first, `LogoutIsFinal` without the fact that an
answered logout has left `revokedAt` set.

`RateLimits_proofs`: types, the rate and `RefusedOnlyWhenFull`, for any number of requests,
any limits and any length of the window, provided that a statement is late by less than a window
(`MaxLate < WINDOW`; ten minutes in the code, where a request lives for seconds). A rate over an interval
is not inductive: what a row has counted says nothing of the windows before it, and a
late statement dates its window back. The invariant says that a row has counted every attempt since
its opener came in at the latest and none from before its start (`RowCounts`), and
that of the attempts of the last window, less the delay, those the row has not counted, because
an earlier row or one cleaned up did, are at most one limit (`RecentCounts`), whence
twice the limit.

`ReconciliationQueue_proofs`: the queue holds each pending row once and no other, and a run has no row
twice and at most `Limit` of them (`TypeOK`), however runs and requests overlap. It rests on
what appending and removing do to a sequence without repetition (`AppendNew`,
`RemoveOne`), proved by indices.

### Only model-checked

Liveness (`MinedIsRecorded`, `DecidedIsResolved`, `CheckEnds`), which is out of the
prover's reach; the equality of `Total` with the recursive sum (`CoinsAreSum`,
evaluated on small functions), which needs induction over data; and the connection of the
tool, whose one property TLC refutes. The violated properties are, of course, not theorems.

## Not modelled

* Presentation, routing, HTTP, health checks, deployment, vendored libraries: no
  state the properties speak about.
* Parsing, canonical JSON, redaction, hashes and the policy parser are pure, and a
  value that passes them is a model value. Command-line arguments and prompts
  likewise.
* The older repository's `createProject`, `savePolicy`, `createTask`,
  `registerChainTransaction`, `updateChainTransactionState` and
  `appendContractEvent`, and `reconcileTransaction` and
  `confirmTaskCreatedEvent`: nothing in the application calls them.
* Row locks and their order: a transaction is one step. That two of them may deadlock
  (one fails and is retried) is listed as a hazard.
* A rename of the tool's files is one step. Its two files are renamed one after the other, and a
  command that is stopped in between (`end`) leaves the project of one
  connection beside the token of another; no property is about that.
* Reorganisations of the chain: the code takes one receipt as final.
