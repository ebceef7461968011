----------------------------- MODULE EvidenceIntake -----------------------------
(***************************************************************************)
(* How the evidence of one task reaches the server and is attested.        *)
(*                                                                         *)
(* `donebond submit` posts a bundle up to ATTEMPTS times.  An attempt it   *)
(* has stopped waiting for may still be on its way, so that the server     *)
(* works on several at once, each in the steps between which the code      *)
(* awaits (apps/web/src/server/evidence-handlers.ts over packages/db/src/  *)
(* repository.ts).  Meanwhile the owner of the project issues and revokes  *)
(* tokens (cli-token-repository.ts), and the assignee asks for a receipt:  *)
(* the newest passing bundle is read, attested, and stored with a chain    *)
(* transaction (receipt-handlers.ts over task-chain-repository.ts).        *)
(*                                                                         *)
(* A transaction locks the task and is one step, except that created_at of *)
(* a bundle is the time at which its transaction began.  A server that     *)
(* stops leaves an upload where it is, for ever.                           *)
(***************************************************************************)
EXTENDS Integers, FiniteSets

CONSTANTS
    Token,          \* tokens the owner may issue, by idempotency key
    Bundle,         \* passing bundles made for the task, by hash
    Run,            \* runs of `donebond submit`
    Request,        \* requests of the assignee for a receipt
    ReceiptKey,     \* their idempotency keys
    NoToken, NoBundle, NoKey,
    ATTEMPTS,       \* how often the tool tries (3 in the code)
    MaxClock        \* bound: transactions that store evidence

ASSUME NullAssumption ==
    NoToken \notin Token /\ NoBundle \notin Bundle /\ NoKey \notin ReceiptKey

ASSUME BoundAssumption == ATTEMPTS \in Nat \ {0} /\ MaxClock \in Nat

VARIABLES
    tokens,         \* cli_tokens, by token: absent, active or revoked
    bundles,        \* evidence_bundles of the task, by hash
    clock,          \* the database's clock, which tells transactions apart
    runs,           \* what each use of the endpoint has got so far
    uploads,        \* by run and attempt: the request, as the server works on it
    intents,        \* receipt rows of chain_transactions, with their attestation
    requests,       \* what each request for a receipt has got so far
    acknowledged,   \* history: the bundles whose sender was told they are stored
    follows         \* history: <<a, b>> if a was acknowledged before b was first sent

receiptVars == <<intents, requests>>
submitVars  == <<runs, uploads, acknowledged, follows>>
vars == <<tokens, bundles, clock, submitVars, receiptVars>>

Attempt == 1..ATTEMPTS
Clock   == 0..MaxClock

NoRow == [token |-> NoToken, createdAt |-> 0]
BundleRow == [token : Token, createdAt : Clock]

\* By HTTP status: 201; 400, 401, 404 or 409; 429 or 500.  Nobody waits for "none".
Answer == {"none", "stored", "refused", "retryable"}

Upload == [at : {"unsent", "sent", "authenticated", "begun", "answered"},
           createdAt : Clock, answer : Answer]

Unsent == [at |-> "unsent", createdAt |-> 0, answer |-> "none"]
Sending == [Unsent EXCEPT !.at = "sent"]

RunRecord == [at : {"idle", "waiting", "succeeded", "failed"},
              token : Token \cup {NoToken}, bundle : Bundle \cup {NoBundle},
              attempt : Attempt]

NoIntent == [status |-> "none", bundle |-> NoBundle, known |-> {}]
Intent == [status : {"live", "over"}, bundle : Bundle, known : SUBSET Bundle]

RequestRecord == [at : {"idle", "signed", "answered"}, key : ReceiptKey \cup {NoKey},
                  bundle : Bundle \cup {NoBundle}, walletRequest : Bundle \cup {NoBundle}]

Init ==
    /\ tokens = [k \in Token |-> "absent"]
    /\ bundles = [b \in Bundle |-> NoRow]
    /\ clock = 0
    /\ runs = [r \in Run |->
           [at |-> "idle", token |-> NoToken, bundle |-> NoBundle, attempt |-> 1]]
    /\ uploads = [r \in Run |-> [i \in Attempt |-> Unsent]]
    /\ intents = [k \in ReceiptKey |-> NoIntent]
    /\ requests = [q \in Request |->
           [at |-> "idle", key |-> NoKey, bundle |-> NoBundle, walletRequest |-> NoBundle]]
    /\ acknowledged = {}
    /\ follows = {}
--------------------------------------------------------------------------------
(* The owner's tokens.  A token is derived from its idempotency key, so a   *)
(* retry answers the same one; it changes nothing and is no step.           *)

createCliToken(k) ==
    /\ tokens[k] = "absent"
    /\ tokens' = [tokens EXCEPT ![k] = "active"]
    /\ UNCHANGED <<bundles, clock, submitVars, receiptVars>>

revokeCliToken(k) ==
    /\ tokens[k] = "active"
    /\ tokens' = [tokens EXCEPT ![k] = "revoked"]
    /\ UNCHANGED <<bundles, clock, submitVars, receiptVars>>
--------------------------------------------------------------------------------
(* The command-line tool.                                                   *)

\* The tool verifies the bundle again and sends only a passing one.
submitEvidence(r, k, b) ==
    /\ runs[r].at = "idle"
    /\ tokens[k] # "absent"         \* stored by `donebond init`
    /\ runs' = [runs EXCEPT ![r].at = "waiting", ![r].token = k, ![r].bundle = b]
    /\ uploads' = [uploads EXCEPT ![r][1] = Sending]
    /\ follows' = IF \E other \in Run : runs[other].bundle = b
                    THEN follows ELSE follows \cup (acknowledged \X {b})
    /\ UNCHANGED <<tokens, bundles, clock, acknowledged, receiptVars>>

\* The run stops waiting for its attempt.
Settle(r, at) ==
    /\ runs' = [runs EXCEPT ![r].at = at]
    /\ uploads' = [uploads EXCEPT ![r][runs[r].attempt].answer = "none"]

TryAgain(r) ==
    LET i == runs[r].attempt
    IN  IF i < ATTEMPTS
          THEN /\ runs' = [runs EXCEPT ![r].attempt = i + 1]
               /\ uploads' = [uploads EXCEPT ![r][i].answer = "none", ![r][i + 1] = Sending]
          ELSE Settle(r, "failed")

\* The network failed, or fifteen seconds have passed.  The server may know
\* nothing of the request, be working on it, or have answered.
timeOut(r) ==
    /\ runs[r].at = "waiting"
    /\ TryAgain(r)
    /\ UNCHANGED <<tokens, bundles, clock, acknowledged, follows, receiptVars>>

readAnswer(r) ==
    LET answer == uploads[r][runs[r].attempt].answer
    IN  /\ runs[r].at = "waiting"
        /\ \/ answer = "stored" /\ Settle(r, "succeeded")
           \/ answer = "retryable" /\ TryAgain(r)
           \/ \* The body of a good answer may be cut off: that is not retried.
              answer \in {"stored", "refused"} /\ Settle(r, "failed")
        /\ acknowledged' = IF runs'[r].at = "succeeded"
                             THEN acknowledged \cup {runs[r].bundle} ELSE acknowledged
        /\ UNCHANGED <<tokens, bundles, clock, follows, receiptVars>>
--------------------------------------------------------------------------------
(* The server's work on one attempt.                                        *)

AnswerUpload(r, i, answer) ==
    uploads' = [uploads EXCEPT ![r][i] =
        [at |-> "answered", createdAt |-> 0,
         answer |-> IF runs[r].at = "waiting" /\ runs[r].attempt = i THEN answer ELSE "none"]]

Refuse(r, i, answer) ==
    /\ AnswerUpload(r, i, answer)
    /\ UNCHANGED <<tokens, bundles, clock, runs, acknowledged, follows, receiptVars>>

\* One conditional UPDATE, after the rate limiters.
authenticate(r, i) ==
    /\ uploads[r][i].at = "sent"
    /\ \/ Refuse(r, i, "retryable")
       \/ tokens[runs[r].token] # "active" /\ Refuse(r, i, "refused")
       \/ /\ tokens[runs[r].token] = "active"
          /\ uploads' = [uploads EXCEPT ![r][i].at = "authenticated"]
          /\ UNCHANGED <<tokens, bundles, clock, runs, acknowledged, follows, receiptVars>>

\* The bundle matches the record of the task, which never changes: the
\* transaction begins.
beginUpload(r, i) ==
    /\ uploads[r][i].at = "authenticated"
    /\ clock < MaxClock
    /\ clock' = clock + 1
    /\ uploads' = [uploads EXCEPT ![r][i].at = "begun", ![r][i].createdAt = clock']
    /\ UNCHANGED <<tokens, bundles, runs, acknowledged, follows, receiptVars>>

\* Mutant: the token is not checked again.
MTokenBinds(k) == tokens[k] # "absent"

TokenBinds(k) == tokens[k] = "active"

\* Mutant: any stored bundle of that hash answers a retry.
MReplays(k, b) == bundles[b] # NoRow

\* The key of the tool is taken from the hash: the reservation of (k, b) is
\* there exactly when k has stored b.
Replays(k, b) == bundles[b].token = k

persistEvidence(r, i) ==
    LET k == runs[r].token
        b == runs[r].bundle
    IN  /\ uploads[r][i].at = "begun"
        /\ \/ ~TokenBinds(k) /\ Refuse(r, i, "refused")
           \/ /\ TokenBinds(k) /\ Replays(k, b)
              /\ Refuse(r, i, "stored")
           \/ \* evidence_task_hash_unique: another token has stored it.
              /\ TokenBinds(k) /\ ~Replays(k, b) /\ bundles[b] # NoRow
              /\ Refuse(r, i, "retryable")
           \/ /\ TokenBinds(k) /\ bundles[b] = NoRow
              /\ bundles' = [bundles EXCEPT ![b] =
                     [token |-> k, createdAt |-> uploads[r][i].createdAt]]
              /\ \E answer \in {"stored", "refused"} :     \* the COMMIT may go unanswered
                     AnswerUpload(r, i, answer)
              /\ UNCHANGED <<tokens, clock, runs, acknowledged, follows, receiptVars>>

\* The bundle is not what the record of the task or its policy asks for, or the
\* database fails: that is translated to DB_INVALID_INPUT, which is a 400, too,
\* once the sender is known, and a 500 before.
failUpload(r, i) ==
    \/ uploads[r][i].at = "sent" /\ Refuse(r, i, "retryable")
    \/ uploads[r][i].at \in {"authenticated", "begun"} /\ Refuse(r, i, "refused")
--------------------------------------------------------------------------------
(* Receipts.  What the task and the project must allow is in                *)
(* ChainTransactions; here, only what the evidence decides.                 *)

Stored == {b \in Bundle : bundles[b] # NoRow}

LatestPassing(b) ==
    b \in Stored /\ \A c \in Stored : bundles[c].createdAt <= bundles[b].createdAt

\* getLatestPassingEvidence, without a lock; then the attestation is signed.
signAttestation(q, k, b) ==
    /\ requests[q].at = "idle"
    /\ LatestPassing(b)
    /\ requests' = [requests EXCEPT ![q].at = "signed", ![q].key = k, ![q].bundle = b]
    /\ UNCHANGED <<tokens, bundles, clock, submitVars, intents>>

AnswerRequest(q, walletRequest) ==
    requests' = [requests EXCEPT ![q].at = "answered", ![q].bundle = NoBundle,
                                 ![q].walletRequest = walletRequest]

\* Mutant: the bundle read before the signature is trusted to be the newest.
MUnchecked(q) == \A k \in ReceiptKey : intents[k].status \in {"none", "over"}

Storable(q) ==
    /\ \A k \in ReceiptKey : intents[k].status \in {"none", "over"}
    /\ LatestPassing(requests[q].bundle)

\* The request's key has been used: the answer is the one stored with it.
ReplaysIntent(q) == intents[requests[q].key] # NoIntent

\* Mutant: a replay, too, is answered with the attestation just signed.
MWalletRequest(q) == requests[q].bundle

\* result.replayed ? null : ...
WalletRequest(q) ==
    IF ReplaysIntent(q) THEN NoBundle ELSE requests[q].bundle

createReceiptChainIntent(q) ==
    LET k == requests[q].key
    IN  /\ requests[q].at = "signed"
        /\ \/ ReplaysIntent(q) /\ AnswerRequest(q, WalletRequest(q)) /\ UNCHANGED intents
           \/ ~ReplaysIntent(q) /\ ~Storable(q) /\ AnswerRequest(q, NoBundle) /\ UNCHANGED intents
           \/ /\ ~ReplaysIntent(q) /\ Storable(q)
              /\ intents' = [intents EXCEPT ![k] =
                     [status |-> "live", bundle |-> requests[q].bundle,
                      known |-> acknowledged]]
              /\ AnswerRequest(q, WalletRequest(q))
        /\ UNCHANGED <<tokens, bundles, clock, submitVars>>

\* The wallet refused, or the transaction reverted.
endIntent(k) ==
    /\ intents[k].status = "live"
    /\ intents' = [intents EXCEPT ![k].status = "over"]
    /\ UNCHANGED <<tokens, bundles, clock, submitVars, requests>>
--------------------------------------------------------------------------------
Next ==
    \/ \E k \in Token : createCliToken(k) \/ revokeCliToken(k)
    \/ \E r \in Run, k \in Token, b \in Bundle : submitEvidence(r, k, b)
    \/ \E r \in Run : timeOut(r) \/ readAnswer(r)
    \/ \E r \in Run, i \in Attempt :
           \/ authenticate(r, i) \/ beginUpload(r, i)
           \/ persistEvidence(r, i) \/ failUpload(r, i)
    \/ \E q \in Request, k \in ReceiptKey, b \in Bundle : signAttestation(q, k, b)
    \/ \E q \in Request : createReceiptChainIntent(q)
    \/ \E k \in ReceiptKey : endIntent(k)

Spec == Init /\ [][Next]_vars
================================================================================
