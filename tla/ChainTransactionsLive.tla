------------------------ MODULE ChainTransactionsLive --------------------------
(***************************************************************************)
(* What must eventually happen to a transaction, and under which fairness. *)
(*                                                                         *)
(* The cron job comes back to every pending row for ever, so it is treated *)
(* fairly row by row, although a run may be cut short or overtaken: what   *)
(* is due to a row rests on the fairness to that row alone.                *)
(* The RPC node may fail or lag any number of times, not for ever, and no  *)
(* run is cut short each time just when it knows the answer.  The          *)
(* browser reports, in the end, what the wallet has answered.              *)
(* Nothing is assumed of the user, of the chain or of the API endpoints.   *)
(***************************************************************************)
EXTENDS ChainTransactionsProps

CronReads(i) == getReconciliationContext(Cron, i, rows[i].intent)

CronIsTold(i) ==
    /\ work[Cron] # Idle /\ work[Cron].row = i
    /\ \E answer \in {"success", "reverted"} : getReceipt(Cron, answer)

CronConcludes(i) ==
    /\ work[Cron] # Idle /\ work[Cron].row = i
    /\ \/ markTransactionReverted(Cron)
       \/ confirmTaskCreatedFromReconciliation(Cron)
       \/ confirmReceiptSubmittedFromReconciliation(Cron)

\* The schedule comes back to row i, the node does not fail it for ever.
CronReturnsTo(i) == /\ SF_vars(CronReads(i))
                    /\ SF_vars(CronIsTold(i))
                    /\ SF_vars(CronConcludes(i))

\* A run does not stay with one row for ever.
RunsEnd == WF_vars(stopReconciling(Cron))

BrowserFairness ==
    \A i \in Row : /\ WF_vars(recordRejected(i))
                   /\ \A h \in Hash : /\ WF_vars(recordSubmitted(i, h))
                                      /\ WF_vars(recordReplacement(i, h))

CronSpec == Spec /\ RunsEnd
FairSpec == CronSpec /\ (\A i \in Row : CronReturnsTo(i)) /\ BrowserFairness

\* The chain has decided, and the row can tell: the transaction reverted, or
\* made the call of the row, whose reconciler finds the attestation it needs.
Decided(i) ==
    /\ rows[i].status \in {"submitted", "unknown_reconcile"}
    /\ Mined(rows[i].hash)
    /\ sent[rows[i].hash].call = rows[i].intent
    /\ rows[i].intent = "submit_receipt" => rows[i].attested

\* UX_SPEC.md and ARCHITECTURE.md: a transaction stays recoverable after any
\* number of RPC failures, lost runs and stale answers.  Once it is mined, its
\* row gets its final status, from the cron job alone.
MinedIsRecorded ==
    \A i \in Row : CronReturnsTo(i) => (Decided(i) ~> rows[i].status \in Final)

\* A comment on createReceiptChainIntent: the intent "is authorized to the
\* assignee wallet (not the creator)".  What that wallet has broadcast, and the
\* chain has accepted, is shown as submitted in the end.
MinedReceiptShown ==
    \A h \in Hash, t \in Task :
        (sent[h].outcome = "success" /\ sent[h].call = "submit_receipt" /\ sent[h].task = t)
            ~> chain[t] = "receipt_submitted"

\* createReceiptChainIntent refuses a task that "already has a pending or
\* confirmed receipt intent": one whose receipt intents were all rejected in the
\* wallet can have another.
RejectedReceiptCanRetry ==
    \A t \in Task :
        /\ chain[t] = "open"
        /\ \A i \in TaskRows(t, "submit_receipt") : rows[i].status = "rejected_by_user"
        => ReceiptEligible(t)
================================================================================
