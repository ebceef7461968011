----------------------------- MODULE VerificationRun ----------------------------
(***************************************************************************)
(* `donebond verify` and `donebond submit` on the assignee's machine,      *)
(* beside an assignee who goes on working in the same repository.          *)
(*                                                                         *)
(* The tool reads HEAD, then asks three Git processes whether the tree is  *)
(* clean (packages/evidence/src/git.ts); runs the checks of the policy one *)
(* after the other; reads HEAD and asks the three again; and writes a      *)
(* bundle, or a diagnostic in its place (apps/cli/src/verify-command.ts).  *)
(* Each check is a group of processes that the tool times out and kills    *)
(* (runner.ts).  A submission reads the bundle, and HEAD once more         *)
(* (submit-command.ts).                                                    *)
(*                                                                         *)
(* The contents of a file are numbered in the order in which they are      *)
(* first written; that it is not there is one of them.  A commit is named  *)
(* after its content.  Files that Git is told to ignore are not among the  *)
(* files: `ls-files` does not list them.                                   *)
(***************************************************************************)
EXTENDS Integers

CONSTANTS
    CHECKS,         \* required checks of the policy, in order: 1..CHECKS
    File,
    absent,         \* the content of a file that is not there
    MaxVersion,     \* bound: the contents of a file
    MaxReturns,     \* bound: how often something goes back
    NoBundle, NoCheck

ASSUME BoundAssumption == CHECKS \in Nat \ {0} /\ MaxVersion \in Nat /\ MaxReturns \in Nat
ASSUME FileAssumption == absent \in [File -> Nat]

VARIABLES
    head, commits,  \* HEAD's content, and those of all commits
    index,          \* what is staged: the content of the next commit
    worktree,       \* the working tree's content
    newest,         \* the content of each file that was written last
    verification,   \* what `donebond verify` has got so far
    check,          \* the check that runs, or NoCheck
    bundle,         \* the output file, or NoBundle if it has no passing bundle
    submission,     \* what `donebond submit` has got so far
    returns         \* history: how often something has gone back to an earlier content

repository == <<head, commits, index, worktree, newest, returns>>
vars == <<repository, verification, check, bundle, submission>>

Version == 0..MaxVersion
Content == [File -> Version]
AtFirst == [f \in File |-> 0]

\* The Git processes that tell whether the tree is clean.
Diffs == {"staged", "unstaged", "untracked"}

\* These are history.  othersRan: while a check ran, the working tree had a content
\* that is not the commit's.  moved: HEAD was another when the staged changes were
\* last read.  stagedSince: something was staged after that, and before the
\* unstaged and the untracked changes had both been read.
Bundle == [commit : Content, othersRan : BOOLEAN, moved : BOOLEAN, stagedSince : BOOLEAN]

Submission == [at : {"read", "posted"}, bundle : Bundle]

\* left: the Git processes whose answer is still to come; clean: of the others,
\* none has listed a file.
Verification == [at : {"idle", "headRead", "checking", "headReadAgain"}, commit : Content,
                 done : 0..CHECKS, passed : BOOLEAN, othersRan : BOOLEAN,
                 left : SUBSET Diffs, clean : BOOLEAN, moved : BOOLEAN,
                 stagedSince : BOOLEAN]

Idle == [at |-> "idle", commit |-> AtFirst, done |-> 0, passed |-> TRUE,
         othersRan |-> FALSE, left |-> {}, clean |-> TRUE, moved |-> FALSE,
         stagedSince |-> FALSE]

Check == [alive : BOOLEAN, lingering : BOOLEAN,     \* the child; others of its group
          exit : {"none", "zero", "nonzero", "signal"},
          spawnError : BOOLEAN, exceeded : BOOLEAN, timedOut : BOOLEAN,
          force : BOOLEAN]      \* a timer is set that sends SIGKILL

Started == [alive |-> TRUE, lingering |-> FALSE, exit |-> "none", spawnError |-> FALSE,
            exceeded |-> FALSE, timedOut |-> FALSE, force |-> FALSE]

Init ==
    /\ head = AtFirst /\ commits = {AtFirst}
    /\ index = AtFirst /\ worktree = AtFirst /\ newest = AtFirst
    /\ verification = Idle
    /\ check = NoCheck
    /\ bundle = NoBundle
    /\ submission = NoBundle
    /\ returns = 0
--------------------------------------------------------------------------------
(* The assignee, and whatever else writes to the repository.                *)

\* `run` is what `donebond verify` has got so far.
RunsOn(run, c) == [run EXCEPT !.othersRan = @ \/ c # run.commit]

\* A check that runs may read what is written.
WriteTree(c) ==
    /\ worktree' = c
    /\ verification' = IF check # NoCheck THEN RunsOn(verification, c) ELSE verification
    /\ UNCHANGED <<check, bundle, submission>>

goBack == returns < MaxReturns /\ returns' = returns + 1

edit(f) ==
    /\ newest[f] < MaxVersion
    /\ newest' = [newest EXCEPT ![f] = @ + 1]
    /\ WriteTree([worktree EXCEPT ![f] = newest[f] + 1])
    /\ UNCHANGED <<head, commits, index, returns>>

undo(f, v) ==
    /\ v <= newest[f] /\ v # worktree[f]
    /\ WriteTree([worktree EXCEPT ![f] = v])
    /\ goBack
    /\ UNCHANGED <<head, commits, index, newest>>

\* The reading that is under way has its staged changes, but not all the others.
StagedRead(run) == "staged" \notin run.left /\ run.left # {}

\* git add
add(f) ==
    /\ worktree[f] # index[f]
    /\ index' = [index EXCEPT ![f] = worktree[f]]
    /\ verification' = [verification EXCEPT !.stagedSince = @ \/ StagedRead(verification)]
    /\ UNCHANGED <<head, commits, worktree, newest, check, bundle, submission, returns>>

\* git restore --staged
unstage(f) ==
    /\ index[f] # head[f]
    /\ index' = [index EXCEPT ![f] = head[f]]
    /\ goBack
    /\ UNCHANGED <<head, commits, worktree, newest, verification, check, bundle, submission>>

\* git commit; with -a, a step of its own after those of add.
commit ==
    /\ index # head
    /\ head' = index
    /\ commits' = commits \cup {index}
    /\ UNCHANGED <<index, worktree, newest, returns, verification, check, bundle, submission>>

checkout(c) ==
    /\ c # head
    /\ worktree = head /\ index = head
    /\ head' = c /\ index' = c
    /\ WriteTree(c)
    /\ goBack
    /\ UNCHANGED <<commits, newest>>
--------------------------------------------------------------------------------
(* The processes of one check.                                              *)

InCheck == check # NoCheck

OnlyCheck == UNCHANGED <<repository, verification, bundle, submission>>

\* Mutant: the loop over the checks is off by one.
MChecksLeft == verification.done <= CHECKS

ChecksLeft == verification.done < CHECKS

runCheck ==
    /\ verification.at = "checking" /\ check = NoCheck /\ ChecksLeft
    /\ \E spawns \in BOOLEAN :
           check' = IF spawns THEN Started
                    ELSE [Started EXCEPT !.alive = FALSE, !.spawnError = TRUE]
    /\ verification' = RunsOn(verification, worktree)
    /\ UNCHANGED <<repository, bundle, submission>>

\* The child leaves a process behind that holds its output open.
fork ==
    /\ InCheck /\ check.alive
    /\ check' = [check EXCEPT !.lingering = TRUE]
    /\ OnlyCheck

exit(code) ==
    /\ InCheck /\ check.alive
    /\ check' = [check EXCEPT !.alive = FALSE, !.exit = code]
    /\ OnlyCheck

lingererExits ==
    /\ InCheck /\ check.lingering
    /\ check' = [check EXCEPT !.lingering = FALSE]
    /\ OnlyCheck

\* SIGTERM, and whether the child and the others of its group live on: each may
\* die of it, now or (by exit) later, or ignore it.
Terminated(c, child, others) ==
    [c EXCEPT !.force = TRUE, !.alive = @ /\ child, !.lingering = @ /\ others,
              !.exit = IF c.alive /\ ~child THEN "signal" ELSE @]

appendChunk ==
    /\ InCheck /\ (check.alive \/ check.lingering)
    /\ ~check.exceeded
    /\ \E child, others \in BOOLEAN :
           check' = Terminated([check EXCEPT !.exceeded = TRUE], child, others)
    /\ OnlyCheck

timeout ==
    /\ InCheck /\ ~check.timedOut
    /\ \E child, others \in BOOLEAN :
           check' = Terminated([check EXCEPT !.timedOut = TRUE], child, others)
    /\ OnlyCheck

\* Mutant: SIGKILL is sent to the child alone.
MKilled(c) == [c EXCEPT !.force = FALSE, !.alive = FALSE,
                        !.exit = IF c.alive THEN "signal" ELSE @]

Killed(c) == [c EXCEPT !.force = FALSE, !.alive = FALSE, !.lingering = FALSE,
                       !.exit = IF c.alive THEN "signal" ELSE @]

forceKill ==
    /\ InCheck /\ check.force
    /\ check' = Killed(check)
    /\ OnlyCheck

\* status = "passed": it is "timed_out", "error" or "failed" otherwise.
Passed(c) == ~c.timedOut /\ ~c.spawnError /\ ~c.exceeded /\ c.exit = "zero"

\* The child has exited and nobody holds its output open.
closeCheck ==
    /\ InCheck /\ ~check.alive /\ ~check.lingering
    /\ verification' = [verification EXCEPT !.done = @ + 1, !.passed = @ /\ Passed(check)]
    /\ check' = NoCheck
    /\ UNCHANGED <<repository, bundle, submission>>
--------------------------------------------------------------------------------
(* donebond verify.                                                         *)

\* The reading of the repository that begins once HEAD is read.
collectGitState(run, at) ==
    [run EXCEPT !.at = at, !.left = Diffs, !.clean = TRUE, !.moved = FALSE,
                !.stagedSince = FALSE]

verifyTask ==
    /\ verification.at = "idle"
    /\ verification' = collectGitState([Idle EXCEPT !.commit = head], "headRead")
    /\ UNCHANGED <<repository, check, bundle, submission>>

\* Whether the process lists a file: `git diff --cached` compares the index with
\* HEAD, `git diff` the tracked files with the index, and `git ls-files --others`
\* lists the files that the index does not hold.
Shown(d) ==
    CASE d = "staged" -> index # head
      [] d = "unstaged" -> \E f \in File : index[f] # absent[f] /\ worktree[f] # index[f]
      [] d = "untracked" -> \E f \in File : index[f] = absent[f] /\ worktree[f] # absent[f]

\* The three run side by side and look at the repository in any order.  One process
\* is one step: it reads the index once and then file after file, and unless
\* something goes back meanwhile, lists none only if it would have listed none
\* when it read the index.
gitDiff(d) ==
    /\ verification.at \in {"headRead", "headReadAgain"} /\ d \in verification.left
    /\ verification' = [verification EXCEPT
                            !.left = @ \ {d},
                            !.clean = @ /\ ~Shown(d),
                            !.moved = IF d = "staged" THEN head # verification.commit ELSE @]
    /\ UNCHANGED <<repository, check, bundle, submission>>

writeDiagnostic == bundle' = NoBundle /\ verification' = Idle

collectInitial ==
    /\ verification.at = "headRead" /\ verification.left = {}
    /\ \/ writeDiagnostic      \* GIT_DIRTY; or the branch, remote or base is not the task's
       \/ /\ verification.clean     \* every policy has requireCleanWorkingTree
          /\ verification' = [Idle EXCEPT !.at = "checking", !.commit = verification.commit]
          /\ UNCHANGED bundle
    /\ UNCHANGED <<repository, check, submission>>

readHeadAgain ==
    /\ verification.at = "checking" /\ verification.done = CHECKS
    /\ \/ /\ head # verification.commit      \* GIT_STATE_CHANGED_DURING_VERIFICATION
          /\ writeDiagnostic
       \/ /\ head = verification.commit
          /\ verification' = collectGitState(verification, "headReadAgain")
          /\ UNCHANGED bundle
    /\ UNCHANGED <<repository, check, submission>>

\* Mutant: an unclean tree does not stand in the way of passing.
MderiveResult(passed, clean) == passed

\* A tree that is not clean fails the result, whatever the policy asks for.
deriveResult(passed, clean) == passed /\ clean

writeEvidenceBundle ==
    /\ verification.at = "headReadAgain"
    /\ \/ writeDiagnostic      \* a process fails; or the branch, remote or base is not the task's
       \/ /\ verification.left = {}
          /\ bundle' = IF deriveResult(verification.passed, verification.clean)
                       THEN [commit |-> verification.commit,
                             othersRan |-> verification.othersRan,
                             moved |-> verification.moved,
                             stagedSince |-> verification.stagedSince]
                       ELSE NoBundle
          /\ verification' = Idle
    /\ UNCHANGED <<repository, check, submission>>

\* The tool is stopped, or throws; what it last wrote stays.  A check, in a process
\* group of its own, may live on: nobody reads its result.
interrupt ==
    /\ verification.at # "idle"
    /\ verification' = Idle
    /\ check' = NoCheck
    /\ UNCHANGED <<repository, bundle, submission>>
--------------------------------------------------------------------------------
(* donebond submit.                                                         *)

OnlySubmission == UNCHANGED <<repository, verification, check, bundle>>

\* What the tool has written passes the check of its form, its policy and its
\* derived values, which is made again.  One that does not pass is not submitted.
verifyBundle(b) == b # NoBundle

readBundle ==
    /\ submission = NoBundle
    /\ verifyBundle(bundle)
    /\ submission' = [at |-> "read", bundle |-> bundle]
    /\ OnlySubmission

\* Mutant: HEAD is not compared with the commit of the bundle.
MHeadIs(b) == TRUE

HeadIs(b) == head = b.commit

\* Posted, or refused (for its task or its connection, too).
submitEvidence ==
    /\ submission # NoBundle /\ submission.at = "read"
    /\ \/ HeadIs(submission.bundle) /\ submission' = [submission EXCEPT !.at = "posted"]
       \/ submission' = NoBundle
    /\ OnlySubmission

submitted ==
    /\ submission # NoBundle /\ submission.at = "posted"
    /\ submission' = NoBundle
    /\ OnlySubmission
--------------------------------------------------------------------------------
Next ==
    \/ \E f \in File : edit(f) \/ add(f) \/ unstage(f) \/ \E v \in Version : undo(f, v)
    \/ commit \/ \E c \in commits : checkout(c)
    \/ runCheck \/ fork \/ lingererExits \/ appendChunk \/ timeout \/ forceKill \/ closeCheck
    \/ \E code \in {"zero", "nonzero"} : exit(code)
    \/ \E d \in Diffs : gitDiff(d)
    \/ verifyTask \/ collectInitial \/ readHeadAgain \/ writeEvidenceBundle \/ interrupt
    \/ readBundle \/ submitEvidence \/ submitted

\* Timers fire, SIGKILL kills, and Node.js reports that a child is gone.
\* Nothing is assumed of the processes themselves.
RunnerFairness == WF_vars(timeout) /\ WF_vars(forceKill) /\ WF_vars(closeCheck)

Spec == Init /\ [][Next]_vars /\ RunnerFairness
================================================================================
