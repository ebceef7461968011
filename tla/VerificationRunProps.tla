-------------------------- MODULE VerificationRunProps --------------------------
(***************************************************************************)
(* What a bundle may claim, and that every check comes to an end.          *)
(***************************************************************************)
EXTENDS VerificationRun

\* No check runs outside the phase of the checks, or past the last of the
\* policy's checks (runChecksSequentially), and one that has ended by itself
\* leaves either an exit status or the error of its start (runner.ts).
TypeOK ==
    /\ head \in commits /\ commits \subseteq Content
    /\ index \in Content /\ worktree \in Content /\ newest \in Content
    /\ returns \in 0..MaxReturns
    /\ verification \in Verification
    /\ check \in Check \cup {NoCheck}
    /\ bundle \in Bundle \cup {NoBundle} /\ submission \in Submission \cup {NoBundle}
    /\ check # NoCheck =>
           /\ verification.at = "checking" /\ verification.done < CHECKS
           /\ check.alive => check.exit = "none"
           /\ ~check.alive => (check.exit # "none" \/ check.spawnError)

\* A passing bundle is about a commit and nothing else: while its checks ran,
\* the working tree held that commit and nothing else.  The tool looks at the
\* tree before and after (verify-command.ts:234 and :262), never in between, and
\* each look is made of HEAD and of three Git processes (git.ts:209-213).  What
\* it cannot see: a file that came and went again; a HEAD that moved before the
\* staged changes of the last look were read; and what was staged after them but
\* before the other two had answered, which none of the three lists.
VerifiedRanOnCommit ==
    bundle # NoBundle =>
        ~bundle.othersRan \/ bundle.moved \/ bundle.stagedSince \/ returns > 0

\* What leaves the machine is about its commit even if HEAD moved during the last
\* look: the submission compares HEAD with the bundle again (submit-command.ts:107),
\* and a HEAD that moved on stays away.  What was staged between the processes of
\* that look is posted, as HEAD need not have moved.
SubmittedRanOnCommit ==
    submission # NoBundle =>
        (submission.at = "posted" =>
            ~submission.bundle.othersRan \/ submission.bundle.stagedSince \/ returns > 0)

\* Every check ends, though its command hangs, ignores SIGTERM, or leaves a
\* process behind that holds its output open (runner.ts:49-67, 178-205).
CheckEnds == check # NoCheck ~> check = NoCheck
================================================================================
