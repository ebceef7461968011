----------------------- MODULE ReconciliationQueueProps ------------------------
(***************************************************************************)
(* Properties of ReconciliationQueue.  The cron schedule starts runs for   *)
(* ever and only MaxAborts of them are cut off; a row the chain has        *)
(* decided, visited again and again, does not fail every time; and what is *)
(* not stuck is mined in the end.  Requests of users may come or not.      *)
(***************************************************************************)
EXTENDS ReconciliationQueue

\* Type invariant.  The queue holds each pending row once, and no other row; a
\* run has at most Limit rows to visit, and none of them twice.
TypeOK ==
    /\ queue \in Seq(Tx)
    /\ IsInjective(queue)
    /\ \A x \in Tx : x \in ToSet(queue) <=> Pending(x)
    /\ failureCode \in [Tx -> Code \cup {"null"}]
    /\ status \in [Tx -> {"wallet_requested", "submitted", "unknown_reconcile", "resolved"}]
    /\ mined \subseteq Tx
    /\ batch \in Seq(Tx)
    /\ IsInjective(batch)
    /\ Len(batch) <= Limit
    /\ aborts \in 0..MaxAborts

ResolvesNext(x) == batch # <<>> /\ Head(batch) = x /\ visitNext /\ resolve(x)

Fairness ==
    /\ WF_vars(startRun)
    /\ WF_vars(visitNext)
    /\ \A x \in Tx : SF_vars(ResolvesNext(x)) /\ WF_vars(mine(x))

FairSpec == Spec /\ Fairness

\* reconciliation-job.ts: work is bounded and a row that fails does not keep
\* the others from being retried.  As long as fewer rows are stuck than a run
\* takes on, every transaction the chain has decided is resolved in the end.
DecidedIsResolved ==
    \A x \in Tx : (Pending(x) /\ x \in mined) ~> status[x] = "resolved"
================================================================================
