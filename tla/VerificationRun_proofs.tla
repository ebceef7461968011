------------------------- MODULE VerificationRun_proofs ------------------------
(***************************************************************************)
(* What a bundle may claim, proved for any number of checks, of files and  *)
(* of edits.                                                               *)
(*                                                                         *)
(* As long as nothing goes back, HEAD, the index and the working tree only *)
(* move forward, file by file, and in this order: what differs once from a *)
(* commit they have reached differs from it for good.                      *)
(***************************************************************************)
EXTENDS VerificationRunProps, TLAPS

Below(a, b) == \A f \in File : a[f] <= b[f]

TreeOK ==
    returns = 0 => Below(head, index) /\ Below(index, worktree) /\ worktree = newest

\* A check that read anything else read something newer than the commit.
RunOK ==
    returns = 0 /\ verification.at # "idle" =>
        /\ Below(verification.commit, head)
        /\ verification.othersRan => worktree # verification.commit
        /\ verification.moved => head # verification.commit

\* The last look has seen nothing yet of what such a check read.
Unseen(run) ==
    /\ run.at = "headReadAgain" /\ run.othersRan
    /\ run.clean /\ ~run.moved /\ ~run.stagedSince

\* Then a process that has answered leaves the file that differs to another: to be
\* staged, untracked, or tracked.  All three cannot be left to nobody.
LookOK ==
    returns = 0 /\ Unseen(verification) =>
        /\ "staged" \notin verification.left => index = verification.commit
        /\ index = verification.commit =>
               /\ "unstaged" \notin verification.left =>
                      \E f \in File : /\ index[f] = absent[f]
                                      /\ worktree[f] # index[f]
               /\ "untracked" \notin verification.left =>
                      \E f \in File : /\ index[f] # absent[f]
                                      /\ worktree[f] # index[f]
               /\ "unstaged" \in verification.left \/ "untracked" \in verification.left

\* HEAD has left such a bundle behind, and will not come back.
Left(b) ==
    returns = 0 /\ b.othersRan /\ ~b.stagedSince => Below(b.commit, head) /\ head # b.commit

BundlesOK ==
    /\ bundle # NoBundle => Left(bundle)
    /\ submission # NoBundle => Left(submission.bundle)

IInv ==
    /\ TypeOK /\ TreeOK /\ RunOK /\ LookOK /\ BundlesOK
    /\ VerifiedRanOnCommit /\ SubmittedRanOnCommit
--------------------------------------------------------------------------------
\* A check of the policy, as it runs.
CheckOK(c) ==
    /\ c \in Check
    /\ c.alive => c.exit = "none"
    /\ ~c.alive => c.exit # "none" \/ c.spawnError

\* SIGTERM leaves a check's record consistent,
LEMMA TerminatedOK ==
    ASSUME NEW c, CheckOK(c), NEW child \in BOOLEAN, NEW others \in BOOLEAN
    PROVE  CheckOK(Terminated(c, child, others))
<1> DEFINE d == Terminated(c, child, others)
<1>1. c \in Check  BY DEF CheckOK
<1>2. /\ d.alive = (c.alive /\ child) /\ d.spawnError = c.spawnError
      /\ d.exit = IF c.alive /\ ~child THEN "signal" ELSE c.exit
  BY <1>1 DEF Check, Terminated
<1>3. d \in Check  BY <1>1 DEF Check, Terminated
<1> QED  BY <1>2, <1>3 DEF CheckOK

\* and so does SIGKILL.
LEMMA KilledOK ==
    ASSUME NEW c, CheckOK(c)
    PROVE  CheckOK(Killed(c))
BY DEF CheckOK, Killed, Check

\* Contents in order: what comes back to the first has not left it.
LEMMA Order ==
    ASSUME NEW a \in Content, NEW b \in Content, NEW c \in Content, Below(a, b), Below(b, c)
    PROVE  Below(a, c) /\ (c = a => b = a)
<1>1. \A f \in File : a[f] \in Nat /\ b[f] \in Nat /\ c[f] \in Nat
  BY BoundAssumption DEF Content, Version
<1>2. Below(a, c)  BY <1>1 DEF Below
<1>3. ASSUME c = a PROVE b = a
  <2>1. \A f \in File : b[f] = a[f]  BY <1>1, <1>3 DEF Below
  <2> QED  BY <2>1 DEF Content
<1> QED  BY <1>2, <1>3

\* The invariant holds at the start.
LEMMA InitHolds == Init => IInv
<1> SUFFICES ASSUME Init PROVE IInv  OBVIOUS
<1>1. AtFirst \in Content  BY BoundAssumption DEF AtFirst, Content, Version
<1>2. TypeOK
  <2>1. Idle \in Verification
    BY <1>1, BoundAssumption DEF Idle, Verification
  <2>2. returns \in 0..MaxReturns  BY BoundAssumption DEF Init
  <2> QED  BY <1>1, <2>1, <2>2 DEF Init, TypeOK
<1>3. TreeOK  BY BoundAssumption DEF Init, TreeOK, Below, AtFirst
<1>4. RunOK /\ LookOK  BY DEF Init, RunOK, LookOK, Unseen, Idle
<1>5. BundlesOK  BY DEF Init, BundlesOK
<1>6. VerifiedRanOnCommit /\ SubmittedRanOnCommit
  BY DEF Init, VerifiedRanOnCommit, SubmittedRanOnCommit
<1> QED  BY <1>2, <1>3, <1>4, <1>5, <1>6 DEF IInv
--------------------------------------------------------------------------------
\* The processes of a check decide only what its result will be.
LEMMA CheckKeeps ==
    ASSUME IInv, InCheck, OnlyCheck, CheckOK(check')
    PROVE  IInv'
<1> USE DEF IInv, OnlyCheck, repository
<1>1. TypeOK'  BY DEF TypeOK, CheckOK, InCheck
<1>2. TreeOK' /\ RunOK' /\ LookOK'  BY DEF TreeOK, RunOK, LookOK, Unseen
<1>3. BundlesOK'  BY DEF BundlesOK, Left
<1>4. VerifiedRanOnCommit' /\ SubmittedRanOnCommit'
  BY DEF VerifiedRanOnCommit, SubmittedRanOnCommit
<1> QED  BY <1>1, <1>2, <1>3, <1>4

ProcessStep ==
    \/ fork \/ lingererExits \/ appendChunk \/ timeout \/ forceKill
    \/ \E code \in {"zero", "nonzero"} : exit(code)

\* What the processes of a check and the runner's timers do keeps the invariant;
LEMMA ProcessStepKeeps ==
    ASSUME IInv, ProcessStep
    PROVE  IInv'
<1>1. InCheck /\ OnlyCheck
  BY DEF ProcessStep, fork, lingererExits, appendChunk, timeout, forceKill, exit
<1>2. CheckOK(check)  BY <1>1 DEF IInv, TypeOK, CheckOK, InCheck
<1>3. check \in Check  BY <1>2 DEF CheckOK
<1>4. ASSUME fork PROVE CheckOK(check')
  BY <1>2, <1>3, <1>4 DEF fork, CheckOK, Check
<1>5. ASSUME lingererExits PROVE CheckOK(check')
  BY <1>2, <1>3, <1>5 DEF lingererExits, CheckOK, Check
<1>6. ASSUME appendChunk PROVE CheckOK(check')
  <2>1. CheckOK([check EXCEPT !.exceeded = TRUE])  BY <1>2, <1>3 DEF CheckOK, Check
  <2> QED  BY <1>6, <2>1, TerminatedOK DEF appendChunk
<1>7. ASSUME timeout PROVE CheckOK(check')
  <2>1. CheckOK([check EXCEPT !.timedOut = TRUE])  BY <1>2, <1>3 DEF CheckOK, Check
  <2> QED  BY <1>7, <2>1, TerminatedOK DEF timeout
<1>8. ASSUME forceKill PROVE CheckOK(check')
  BY <1>2, <1>8, KilledOK DEF forceKill
<1>9. ASSUME NEW code \in {"zero", "nonzero"}, exit(code)
      PROVE  CheckOK(check')
  BY <1>2, <1>3, <1>9 DEF exit, CheckOK, Check
<1>10. CheckOK(check')
  BY <1>4, <1>5, <1>6, <1>7, <1>8, <1>9 DEF ProcessStep
<1> QED  BY <1>1, <1>10, CheckKeeps
--------------------------------------------------------------------------------
RepositoryStep ==
    \/ \E f \in File : edit(f) \/ add(f) \/ unstage(f) \/ \E v \in Version : undo(f, v)
    \/ commit \/ \E c \in commits : checkout(c)

\* HEAD, the index and the working tree move forward, or something goes back.
LEMMA MovesForward ==
    ASSUME IInv, RepositoryStep
    PROVE  /\ head' \in commits' /\ commits' \subseteq Content
           /\ index' \in Content /\ worktree' \in Content /\ newest' \in Content
           /\ returns' \in 0..MaxReturns /\ (returns' = 0 => returns = 0)
           /\ TreeOK'
           /\ returns' = 0 => /\ Below(head, head') /\ Below(index, index')
                             /\ Below(worktree, worktree')
<1> USE DEF IInv
<1>1. /\ head \in commits /\ commits \subseteq Content /\ head \in Content
      /\ index \in Content /\ worktree \in Content /\ newest \in Content
      /\ returns \in 0..MaxReturns
  BY DEF TypeOK
<1>2. \A c \in Content : Below(c, c) /\ \A f \in File : c[f] \in Version /\ c[f] \in Nat
  BY BoundAssumption DEF Content, Version, Below
<1>3. ASSUME NEW f \in File, edit(f)
      PROVE  /\ worktree' \in Content /\ newest' \in Content
             /\ UNCHANGED <<head, commits, index, returns>>
             /\ returns = 0 => /\ worktree' = newest' /\ Below(worktree, worktree')
                              /\ Below(index, worktree')
  <2>1. newest[f] + 1 \in Version  BY <1>1, <1>2, <1>3, BoundAssumption DEF edit, Version
  <2>2. /\ newest' = [newest EXCEPT ![f] = newest[f] + 1]
        /\ worktree' = [worktree EXCEPT ![f] = newest[f] + 1]
        /\ UNCHANGED <<head, commits, index, returns>>
    BY <1>3 DEF edit, WriteTree
  <2>3. worktree' \in Content /\ newest' \in Content  BY <1>1, <2>1, <2>2 DEF Content
  <2>4. ASSUME returns = 0 PROVE Below(worktree, worktree') /\ worktree' = newest'
    <3>1. worktree = newest  BY <2>4 DEF TreeOK
    <3>2. \A g \in File : worktree'[g] = IF g = f THEN worktree[f] + 1 ELSE worktree[g]
      BY <1>1, <2>2, <3>1 DEF Content
    <3> QED  BY <1>1, <1>2, <2>2, <3>1, <3>2 DEF Below
  <2>5. ASSUME returns = 0 PROVE Below(index, worktree')
    BY <1>1, <2>3, <2>4, <2>5, Order DEF TreeOK
  <2> QED  BY <2>2, <2>3, <2>4, <2>5
<1>4. CASE \E f \in File : edit(f)
  <2>1. PICK f \in File : edit(f)  BY <1>4
  <2> QED  BY <1>1, <1>2, <1>3, <2>1 DEF TreeOK
<1>5. CASE \E f \in File : add(f)
  <2>1. PICK f \in File : add(f)  BY <1>5
  <2>2. /\ index' = [index EXCEPT ![f] = worktree[f]]
        /\ UNCHANGED <<head, commits, worktree, newest, returns>>
    BY <2>1 DEF add
  <2>3. worktree[f] \in Version  BY <1>1, <1>2
  <2>4. index' \in Content  BY <1>1, <2>2, <2>3 DEF Content
  <2>5. ASSUME returns = 0 PROVE Below(index, index') /\ Below(index', worktree)
    <3>1. \A g \in File : index[g] <= worktree[g]  BY <2>5 DEF TreeOK, Below
    <3>2. \A g \in File : index'[g] = IF g = f THEN worktree[f] ELSE index[g]
      BY <1>1, <2>2 DEF Content
    <3> QED  BY <1>1, <1>2, <3>1, <3>2 DEF Below
  <2>6. ASSUME returns = 0 PROVE Below(head, index')
    BY <1>1, <2>4, <2>5, <2>6, Order DEF TreeOK
  <2> QED  BY <1>1, <1>2, <2>2, <2>4, <2>5, <2>6 DEF TreeOK
<1>6. CASE commit
  BY <1>1, <1>2, <1>6 DEF commit, TreeOK
<1>7. ASSUME goBack PROVE returns' \in 0..MaxReturns /\ returns' # 0 /\ TreeOK'
  BY <1>1, <1>7, BoundAssumption DEF goBack, TreeOK
<1>8. CASE \E f \in File : unstage(f)
  <2>1. PICK f \in File : unstage(f)  BY <1>8
  <2>2. /\ index' = [index EXCEPT ![f] = head[f]] /\ goBack
        /\ UNCHANGED <<head, commits, worktree, newest>>
    BY <2>1 DEF unstage
  <2>3. index' \in Content  BY <1>1, <1>2, <2>2 DEF Content
  <2> QED  BY <1>1, <1>7, <2>2, <2>3
<1>9. CASE \E f \in File : \E v \in Version : undo(f, v)
  <2>1. PICK f \in File, v \in Version : undo(f, v)  BY <1>9
  <2>2. /\ worktree' = [worktree EXCEPT ![f] = v] /\ goBack
        /\ UNCHANGED <<head, commits, index, newest>>
    BY <2>1 DEF undo, WriteTree
  <2>3. worktree' \in Content  BY <1>1, <2>2 DEF Content
  <2> QED  BY <1>1, <1>7, <2>2, <2>3
<1>10. CASE \E c \in commits : checkout(c)
  BY <1>1, <1>7, <1>10 DEF checkout, WriteTree
<1> QED  BY <1>4, <1>5, <1>6, <1>8, <1>9, <1>10 DEF RepositoryStep

\* What the verification learns of such a step, without looking.
LEMMA RunLearns ==
    ASSUME IInv, RepositoryStep
    PROVE  /\ UNCHANGED <<check, bundle, submission>>
           /\ verification' \in Verification
           /\ verification'.at = verification.at /\ verification'.commit = verification.commit
           /\ verification'.done = verification.done /\ verification'.left = verification.left
           /\ verification'.clean = verification.clean
           /\ verification'.moved = verification.moved
           /\ verification.stagedSince => verification'.stagedSince
           /\ verification'.othersRan =>
                  verification.othersRan \/ worktree' # verification.commit
           /\ verification'.othersRan /\ verification.at = "headReadAgain" =>
                  verification.othersRan
           /\ returns' = 0 /\ index' # index /\ StagedRead(verification) =>
                  verification'.stagedSince
<1>1. verification \in Verification  BY DEF IInv, TypeOK
<1>2. check # NoCheck => verification.at = "checking"  BY DEF IInv, TypeOK
<1>3. CASE \E f \in File : add(f)
  <2> DEFINE since == verification.stagedSince \/ StagedRead(verification)
  <2>1. /\ UNCHANGED <<check, bundle, submission>>
        /\ verification' = [verification EXCEPT !.stagedSince = since]
    BY <1>3 DEF add
  <2>2. since \in BOOLEAN  BY <1>1 DEF Verification, StagedRead
  <2>3. since = (verification.stagedSince \/ StagedRead(verification))  OBVIOUS
  <2> HIDE DEF since
  <2> QED  BY <1>1, <2>1, <2>2, <2>3 DEF Verification
<1>4. CASE \/ \E f \in File : edit(f) \/ \E v \in Version : undo(f, v)
           \/ \E c \in commits : checkout(c)
  <2> DEFINE ran == verification.othersRan \/ worktree' # verification.commit
  <2>1. /\ UNCHANGED <<check, bundle, submission>>
        /\ verification' = IF check # NoCheck THEN [verification EXCEPT !.othersRan = ran]
                           ELSE verification
        /\ index' = index \/ goBack
    BY <1>4 DEF edit, undo, checkout, WriteTree, RunsOn
  <2>2. goBack => returns' # 0
    BY BoundAssumption DEF goBack, IInv, TypeOK
  <2>3. ran \in BOOLEAN  BY <1>1 DEF Verification
  <2>4. ran = (verification.othersRan \/ worktree' # verification.commit)  OBVIOUS
  <2> HIDE DEF ran
  <2> QED  BY <1>1, <1>2, <2>1, <2>2, <2>3, <2>4 DEF Verification
<1>5. CASE commit \/ \E f \in File : unstage(f)
  <2>1. UNCHANGED <<check, bundle, submission, verification>> /\ (index' = index \/ goBack)
    BY <1>5 DEF commit, unstage
  <2>2. goBack => returns' # 0
    BY BoundAssumption DEF goBack, IInv, TypeOK
  <2> QED  BY <1>1, <2>1, <2>2
<1> QED  BY <1>3, <1>4, <1>5 DEF RepositoryStep

\* What the assignee does: the last look, too, is about what has only moved forward.
LEMMA RepositoryStepKeeps ==
    ASSUME IInv, RepositoryStep
    PROVE  IInv'
<1> USE DEF IInv
<1>1. /\ head \in Content /\ head' \in Content /\ index \in Content /\ index' \in Content
      /\ worktree \in Content /\ worktree' \in Content
      /\ verification \in Verification /\ verification.commit \in Content
  BY MovesForward DEF TypeOK, Verification
<1>2. TypeOK'  BY MovesForward, RunLearns DEF TypeOK
<1>3. TreeOK'  BY MovesForward
<1>4. ASSUME returns' = 0, verification.at # "idle"
      PROVE  /\ Below(verification.commit, head) /\ Below(verification.commit, head')
             /\ Below(verification.commit, index) /\ Below(verification.commit, worktree)
  <2>1. returns = 0  BY <1>4, MovesForward
  <2>2. Below(verification.commit, head)  BY <1>4, <2>1 DEF RunOK
  <2>3. Below(head, head')  BY <1>4, MovesForward
  <2>4. Below(head, index) /\ Below(index, worktree)  BY <2>1 DEF TreeOK
  <2>5. Below(verification.commit, head')  BY <1>1, <2>2, <2>3, Order
  <2>6. Below(verification.commit, index)  BY <1>1, <2>2, <2>4, Order
  <2>7. Below(verification.commit, worktree)  BY <1>1, <2>4, <2>6, Order
  <2> QED  BY <2>2, <2>5, <2>6, <2>7
<1>5. RunOK'
  <2> SUFFICES ASSUME returns' = 0, verification.at # "idle"
               PROVE  /\ Below(verification.commit, head')
                      /\ verification'.othersRan => worktree' # verification.commit
                      /\ verification.moved => head' # verification.commit
    BY RunLearns DEF RunOK
  <2>1. returns = 0 /\ Below(head, head') /\ Below(worktree, worktree')  BY MovesForward
  <2>2. verification.othersRan => worktree' # verification.commit
    <3>1. verification.othersRan => worktree # verification.commit  BY <2>1 DEF RunOK
    <3>2. worktree' = verification.commit => worktree = verification.commit
      BY <1>1, <1>4, <2>1, Order
    <3> QED  BY <3>1, <3>2
  <2>3. verification.moved => head' # verification.commit
    <3>1. verification.moved => head # verification.commit  BY <2>1 DEF RunOK
    <3>2. head' = verification.commit => head = verification.commit
      BY <1>1, <1>4, <2>1, Order
    <3> QED  BY <3>1, <3>2
  <2> QED  BY <1>4, <2>2, <2>3, RunLearns
<1>6. LookOK'
  <2> SUFFICES ASSUME returns' = 0, Unseen(verification')
               PROVE  /\ "staged" \notin verification.left => index' = verification.commit
                      /\ index' = verification.commit =>
                          /\ "unstaged" \notin verification.left =>
                                 \E f \in File : index'[f] = absent[f] /\ worktree'[f] # index'[f]
                          /\ "untracked" \notin verification.left =>
                                 \E f \in File : index'[f] # absent[f] /\ worktree'[f] # index'[f]
                          /\ \/ "unstaged" \in verification.left
                             \/ "untracked" \in verification.left
    BY RunLearns DEF LookOK
  <2>1. returns = 0 /\ Below(index, index') /\ Below(worktree, worktree')  BY MovesForward
  <2>2. Unseen(verification)  BY RunLearns DEF Unseen
  <2>3. index' # index => ~StagedRead(verification)  BY RunLearns DEF Unseen
  <2>4. index' = verification.commit => index = verification.commit
    BY <1>1, <1>4, <2>1, <2>2, Order DEF Unseen
  <2>5. "staged" \notin verification.left => index' = verification.commit
    <3>1. "staged" \notin verification.left =>
              index = verification.commit /\ verification.left # {}
      BY <2>1, <2>2 DEF LookOK
    <3> QED  BY <2>3, <3>1 DEF StagedRead
  <2>6. ASSUME index' = verification.commit, NEW f \in File, worktree[f] # index[f]
        PROVE  index'[f] = index[f] /\ worktree'[f] # index'[f]
    <3>1. index' = index  BY <2>4, <2>6
    <3>2. index[f] <= worktree[f] /\ worktree[f] <= worktree'[f]
      BY <2>1 DEF TreeOK, Below
    <3>3. index[f] \in Nat /\ worktree[f] \in Nat /\ worktree'[f] \in Nat
      BY <1>1, BoundAssumption DEF Content, Version
    <3> QED  BY <2>6, <3>1, <3>2, <3>3
  <2> QED  BY <2>1, <2>2, <2>4, <2>5, <2>6 DEF LookOK
<1>7. BundlesOK'
  <2>1. ASSUME NEW b \in Bundle, Left(b), returns' = 0, b.othersRan, ~b.stagedSince
        PROVE  Below(b.commit, head') /\ head' # b.commit
    <3>1. b.commit \in Content  BY DEF Bundle
    <3>2. Below(b.commit, head) /\ head # b.commit  BY <2>1, MovesForward DEF Left
    <3>3. Below(head, head')  BY <2>1, MovesForward
    <3> QED  BY <1>1, <3>1, <3>2, <3>3, Order
  <2>2. bundle' = bundle /\ submission' = submission  BY RunLearns
  <2>3. bundle # NoBundle => bundle \in Bundle  BY DEF TypeOK
  <2>4. submission # NoBundle => submission.bundle \in Bundle  BY DEF TypeOK, Submission
  <2> QED  BY <2>1, <2>2, <2>3, <2>4 DEF BundlesOK, Left
<1>8. VerifiedRanOnCommit' /\ SubmittedRanOnCommit'
  <2>1. returns > 0 => returns' > 0
    BY MovesForward, BoundAssumption DEF TypeOK
  <2>2. bundle' = bundle /\ submission' = submission  BY RunLearns
  <2> QED  BY <2>1, <2>2 DEF VerifiedRanOnCommit, SubmittedRanOnCommit
<1> QED  BY <1>2, <1>3, <1>5, <1>6, <1>7, <1>8
--------------------------------------------------------------------------------
\* A process that lists no file leaves the one that differs to the others.
LEMMA DiffKeeps ==
    ASSUME IInv, NEW d \in Diffs, gitDiff(d)
    PROVE  IInv'
<1> USE DEF IInv
<1>1. /\ UNCHANGED <<repository, check, bundle, submission>>
      /\ verification.at \in {"headRead", "headReadAgain"} /\ verification \in Verification
  BY DEF gitDiff, TypeOK
<1>2. PICK clean, moved \in BOOLEAN :
          /\ clean = (verification.clean /\ ~Shown(d))
          /\ moved = IF d = "staged" THEN head # verification.commit ELSE verification.moved
          /\ verification' = [verification EXCEPT !.left = @ \ {d}, !.clean = clean, !.moved = moved]
  <2> DEFINE c == verification.clean /\ ~Shown(d)
             m == IF d = "staged" THEN head # verification.commit ELSE verification.moved
  <2>1. c \in BOOLEAN /\ m \in BOOLEAN  BY <1>1 DEF Verification
  <2>2. verification' = [verification EXCEPT !.left = @ \ {d}, !.clean = c, !.moved = m]
    BY DEF gitDiff
  <2> QED  BY <2>1, <2>2
<1>3. /\ verification' \in Verification
      /\ verification'.at = verification.at /\ verification'.commit = verification.commit
      /\ verification'.done = verification.done
      /\ verification'.othersRan = verification.othersRan
      /\ verification'.stagedSince = verification.stagedSince
      /\ verification'.left = verification.left \ {d}
      /\ verification'.clean = clean /\ verification'.moved = moved
  BY <1>1, <1>2 DEF Verification
<1>4. TypeOK'  BY <1>1, <1>3 DEF TypeOK, repository
<1>5. TreeOK' /\ BundlesOK' /\ VerifiedRanOnCommit' /\ SubmittedRanOnCommit'
  BY <1>1 DEF TreeOK, BundlesOK, Left, VerifiedRanOnCommit, SubmittedRanOnCommit, repository
<1>6. RunOK'  BY <1>1, <1>2, <1>3 DEF RunOK, repository
<1>7. LookOK'
  <2> SUFFICES ASSUME returns = 0, Unseen(verification')
               PROVE  /\ "staged" \notin verification'.left => index = verification.commit
                      /\ index = verification.commit =>
                          /\ "unstaged" \notin verification'.left =>
                                 \E f \in File : index[f] = absent[f] /\ worktree[f] # index[f]
                          /\ "untracked" \notin verification'.left =>
                                 \E f \in File : index[f] # absent[f] /\ worktree[f] # index[f]
                          /\ \/ "unstaged" \in verification'.left
                             \/ "untracked" \in verification'.left
    BY <1>1, <1>3 DEF LookOK, repository
  <2>1. clean /\ ~moved /\ verification.othersRan /\ ~verification.stagedSince
        /\ verification.at = "headReadAgain"
    BY <1>3 DEF Unseen
  <2>2. ~Shown(d) /\ verification.clean  BY <1>2, <2>1
  <2>3. ~verification.moved  BY <1>2, <2>1 DEF RunOK
  <2>4. Unseen(verification)  BY <2>1, <2>2, <2>3 DEF Unseen
  <2>5. ASSUME index = verification.commit
        PROVE  \E f \in File : worktree[f] # index[f]
    <3>1. worktree # index  BY <2>1, <2>5 DEF RunOK
    <3>2. worktree \in Content /\ index \in Content  BY DEF TypeOK
    <3> QED  BY <3>1, <3>2 DEF Content
  <2>6. CASE d = "staged"
    <3>1. index = verification.commit  BY <1>2, <2>1, <2>2, <2>6 DEF Shown
    <3>2. \A e \in {"unstaged", "untracked"} :
              e \in verification'.left <=> e \in verification.left
      BY <1>3, <2>6
    <3> QED  BY <2>4, <3>1, <3>2 DEF LookOK
  <2>7. CASE d = "unstaged"
    <3>1. \A f \in File : index[f] # absent[f] => worktree[f] = index[f]
      BY <2>2, <2>7 DEF Shown
    <3>2. \A e \in {"staged", "untracked"} :
              e \in verification'.left <=> e \in verification.left
      BY <1>3, <2>7
    <3> QED  BY <2>4, <2>5, <3>1, <3>2 DEF LookOK
  <2>8. CASE d = "untracked"
    <3>1. \A f \in File : index[f] = absent[f] => worktree[f] = index[f]
      BY <2>2, <2>8 DEF Shown
    <3>2. \A e \in {"staged", "unstaged"} :
              e \in verification'.left <=> e \in verification.left
      BY <1>3, <2>8
    <3> QED  BY <2>4, <2>5, <3>1, <3>2 DEF LookOK
  <2> QED  BY <2>6, <2>7, <2>8 DEF Diffs
<1> QED  BY <1>4, <1>5, <1>6, <1>7
--------------------------------------------------------------------------------
VerifyStep ==
    \/ runCheck \/ closeCheck
    \/ verifyTask \/ collectInitial \/ readHeadAgain \/ writeEvidenceBundle \/ interrupt

\* The bundle that is written has nothing left unseen.
LEMMA WriteKeeps ==
    ASSUME IInv, verification.at = "headReadAgain", verification.left = {}, verification.clean,
           NEW b \in Bundle,
           b.commit = verification.commit, b.othersRan = verification.othersRan,
           b.moved = verification.moved, b.stagedSince = verification.stagedSince
    PROVE  /\ Left(b)
           /\ ~b.othersRan \/ b.moved \/ b.stagedSince \/ returns > 0
<1> USE DEF IInv
<1>1. CASE returns = 0
  <2>1. ~Unseen(verification)  BY <1>1 DEF LookOK
  <2>2. Below(verification.commit, head) /\ (verification.moved => head # verification.commit)
    BY <1>1 DEF RunOK
  <2> QED  BY <2>1, <2>2 DEF Unseen, Left
<1>2. CASE returns # 0
  <2>1. returns > 0  BY <1>2, BoundAssumption DEF TypeOK
  <2> QED  BY <1>2, <2>1 DEF Left
<1> QED  BY <1>1, <1>2

\* The other steps of verify look at HEAD or at nothing.
LEMMA VerifyStepKeeps ==
    ASSUME IInv, VerifyStep
    PROVE  IInv'
<1> USE DEF IInv
<1>1. UNCHANGED <<repository, submission>>
  BY DEF VerifyStep, runCheck, closeCheck, verifyTask, collectInitial, readHeadAgain,
         writeEvidenceBundle, interrupt
<1>2. verification \in Verification  BY DEF TypeOK
<1>3. TreeOK'  BY <1>1 DEF TreeOK, repository
<1>4. head \in Content /\ \A c \in Content : Below(c, c)
  BY BoundAssumption DEF TypeOK, Content, Version, Below
<1>5. AtFirst \in Content  BY BoundAssumption DEF AtFirst, Content, Version
<1>6. Idle \in Verification /\ Idle.at = "idle"
  BY <1>5, BoundAssumption DEF Idle, Verification
\* What the steps leave to be shown.
<1>7. ASSUME verification' \in Verification, check' \in Check \cup {NoCheck},
             check' # NoCheck => /\ verification'.at = "checking" /\ verification'.done < CHECKS
                                 /\ CheckOK(check'),
             bundle' \in {bundle, NoBundle}, RunOK',
             verification'.at = "headReadAgain" => verification'.left = Diffs
      PROVE  IInv'
  <2>1. TypeOK'  BY <1>1, <1>7 DEF TypeOK, CheckOK, repository
  <2>2. BundlesOK'  BY <1>1, <1>7 DEF BundlesOK, Left, repository
  <2>3. VerifiedRanOnCommit' /\ SubmittedRanOnCommit'
    BY <1>1, <1>7 DEF VerifiedRanOnCommit, SubmittedRanOnCommit, repository
  <2>4. LookOK'  BY <1>7 DEF LookOK, Unseen, Diffs
  <2> QED  BY <1>3, <1>7, <2>1, <2>2, <2>3, <2>4
<1>8. CASE runCheck
  <2> DEFINE ran == verification.othersRan \/ worktree # verification.commit
  <2>1. /\ verification.at = "checking" /\ ChecksLeft /\ UNCHANGED bundle
        /\ verification' = [verification EXCEPT !.othersRan = ran]
    BY <1>8 DEF runCheck, RunsOn
  <2>2. ran \in BOOLEAN  BY <1>2 DEF Verification
  <2>3. ran => verification.othersRan \/ worktree # verification.commit  OBVIOUS
  <2> HIDE DEF ran
  <2>4. /\ verification' \in Verification
        /\ verification'.at = "checking" /\ verification'.commit = verification.commit
        /\ verification'.done = verification.done /\ verification'.othersRan = ran
        /\ verification'.moved = verification.moved
    BY <1>2, <2>1, <2>2 DEF Verification
  <2>5. CheckOK(check')
    <3>1. CheckOK(Started)  BY DEF CheckOK, Check, Started
    <3>2. CheckOK([Started EXCEPT !.alive = FALSE, !.spawnError = TRUE])
      BY DEF CheckOK, Check, Started
    <3> QED  BY <1>8, <3>1, <3>2 DEF runCheck
  <2>6. RunOK'  BY <1>1, <2>1, <2>3, <2>4 DEF RunOK, repository
  <2> QED  BY <1>7, <2>1, <2>4, <2>5, <2>6 DEF ChecksLeft, CheckOK
<1>9. CASE closeCheck
  <2>1. /\ check # NoCheck /\ check' = NoCheck /\ UNCHANGED bundle
        /\ verification' = [verification EXCEPT !.done = @ + 1, !.passed = @ /\ Passed(check)]
    BY <1>9 DEF closeCheck, InCheck
  <2>2. verification.at = "checking" /\ verification.done < CHECKS  BY <2>1 DEF TypeOK
  <2>3. PICK done \in 0..CHECKS : done = verification.done + 1
    BY <1>2, <2>2, BoundAssumption DEF Verification
  <2>4. PICK passed \in BOOLEAN : passed = (verification.passed /\ Passed(check))
    BY <1>2 DEF Verification
  <2>5. verification' = [verification EXCEPT !.done = done, !.passed = passed]
    BY <2>1, <2>3, <2>4
  <2>6. /\ verification' \in Verification
        /\ verification'.at = verification.at /\ verification'.commit = verification.commit
        /\ verification'.othersRan = verification.othersRan
        /\ verification'.moved = verification.moved
    BY <1>2, <2>5 DEF Verification
  <2>7. RunOK'  BY <1>1, <2>6 DEF RunOK, repository
  <2> QED  BY <1>7, <2>1, <2>2, <2>6, <2>7
<1>10. CASE verifyTask
  <2>1. /\ verification.at = "idle" /\ UNCHANGED <<check, bundle>>
        /\ verification' = collectGitState([Idle EXCEPT !.commit = head], "headRead")
    BY <1>10 DEF verifyTask
  <2>2. /\ verification' \in Verification
        /\ verification'.at = "headRead" /\ verification'.commit = head
        /\ verification'.othersRan = FALSE /\ verification'.moved = FALSE
    BY <1>4, <1>6, <2>1 DEF Verification, collectGitState, Idle
  <2>3. check = NoCheck  BY <2>1 DEF TypeOK
  <2>4. RunOK'  BY <1>1, <1>4, <2>2 DEF RunOK, repository
  <2> QED  BY <1>7, <2>1, <2>2, <2>3, <2>4
<1>11. ASSUME writeDiagnostic, check = NoCheck, UNCHANGED check
       PROVE  IInv'
  <2>1. bundle' = NoBundle /\ verification' = Idle  BY <1>11 DEF writeDiagnostic
  <2>2. RunOK'  BY <1>6, <2>1 DEF RunOK
  <2> QED  BY <1>6, <1>7, <1>11, <2>1, <2>2
<1>12. CASE collectInitial
  <2>1. check = NoCheck /\ UNCHANGED check /\ verification.at = "headRead"
    BY <1>12 DEF collectInitial, TypeOK
  <2>2. CASE writeDiagnostic  BY <1>11, <2>1, <2>2
  <2>3. CASE /\ verification' = [Idle EXCEPT !.at = "checking", !.commit = verification.commit]
             /\ UNCHANGED bundle
    <3>1. /\ verification' \in Verification
          /\ verification'.at = "checking" /\ verification'.commit = verification.commit
          /\ verification'.othersRan = FALSE /\ verification'.moved = FALSE
      BY <1>2, <1>6, <2>3 DEF Verification, Idle
    <3>2. RunOK'  BY <1>1, <2>1, <3>1 DEF RunOK, repository
    <3> QED  BY <1>7, <2>1, <2>3, <3>1, <3>2
  <2> QED  BY <1>12, <2>2, <2>3 DEF collectInitial
<1>13. CASE readHeadAgain
  <2>1. verification.at = "checking" /\ verification.done = CHECKS /\ UNCHANGED check
    BY <1>13 DEF readHeadAgain
  <2>2. check = NoCheck
    <3>1. check # NoCheck => verification.done < CHECKS  BY DEF TypeOK
    <3>2. ~(verification.done < verification.done)  BY <1>2 DEF Verification
    <3> QED  BY <2>1, <3>1, <3>2
  <2>3. CASE writeDiagnostic  BY <1>11, <2>1, <2>2, <2>3
  <2>4. CASE /\ verification' = collectGitState(verification, "headReadAgain")
             /\ UNCHANGED bundle
    <3>1. /\ verification' \in Verification
          /\ verification'.commit = verification.commit /\ verification'.left = Diffs
          /\ verification'.othersRan = verification.othersRan
          /\ verification'.moved = FALSE
      BY <1>2, <2>4 DEF Verification, collectGitState
    <3>2. RunOK'  BY <1>1, <2>1, <3>1 DEF RunOK, repository
    <3> QED  BY <1>7, <2>1, <2>2, <2>4, <3>1, <3>2
  <2> QED  BY <1>13, <2>3, <2>4 DEF readHeadAgain
<1>14. CASE writeEvidenceBundle
  <2>1. check = NoCheck /\ UNCHANGED check /\ verification.at = "headReadAgain"
    BY <1>14 DEF writeEvidenceBundle, TypeOK
  <2>2. CASE writeDiagnostic  BY <1>11, <2>1, <2>2
  <2>3. CASE bundle' = NoBundle /\ verification' = Idle
    <3>1. RunOK'  BY <1>6, <2>3 DEF RunOK
    <3> QED  BY <1>6, <1>7, <2>1, <2>3, <3>1
  <2> DEFINE new == [commit |-> verification.commit, othersRan |-> verification.othersRan,
                     moved |-> verification.moved, stagedSince |-> verification.stagedSince]
  <2>4. CASE /\ verification.left = {} /\ verification.clean
             /\ bundle' = new /\ verification' = Idle
    <3>1. PICK b \in Bundle :
              /\ b = new
              /\ b.commit = verification.commit /\ b.othersRan = verification.othersRan
              /\ b.moved = verification.moved /\ b.stagedSince = verification.stagedSince
      <4>1. new \in Bundle  BY <1>2 DEF Verification, Bundle
      <4> QED  BY <4>1
    <3> HIDE DEF new
    <3>2. Left(b) /\ (~b.othersRan \/ b.moved \/ b.stagedSince \/ returns > 0)
      BY <2>1, <2>4, <3>1, WriteKeeps
    <3>3. TypeOK'  BY <1>1, <1>6, <2>1, <2>4, <3>1 DEF TypeOK, repository
    <3>4. BundlesOK'  BY <1>1, <2>4, <3>1, <3>2 DEF BundlesOK, Left, repository
    <3>5. VerifiedRanOnCommit' /\ SubmittedRanOnCommit'
      BY <1>1, <2>4, <3>1, <3>2 DEF VerifiedRanOnCommit, SubmittedRanOnCommit, repository
    <3>6. RunOK' /\ LookOK'  BY <1>6, <2>4 DEF RunOK, LookOK, Unseen
    <3> QED  BY <1>3, <3>3, <3>4, <3>5, <3>6
  <2> QED  BY <1>14, <2>2, <2>3, <2>4 DEF writeEvidenceBundle, deriveResult
<1>15. CASE interrupt
  <2>1. verification' = Idle /\ check' = NoCheck /\ UNCHANGED bundle  BY <1>15 DEF interrupt
  <2>2. RunOK'  BY <1>6, <2>1 DEF RunOK
  <2> QED  BY <1>6, <1>7, <2>1, <2>2
<1> QED  BY <1>8, <1>9, <1>10, <1>12, <1>13, <1>14, <1>15 DEF VerifyStep
--------------------------------------------------------------------------------
SubmitStep == readBundle \/ submitEvidence \/ submitted

\* What HEAD has left behind is not submitted.
LEMMA SubmitStepKeeps ==
    ASSUME IInv, SubmitStep
    PROVE  IInv'
<1> USE DEF IInv
<1>1. OnlySubmission  BY DEF SubmitStep, readBundle, submitEvidence, submitted
<1>2. TreeOK' /\ RunOK' /\ LookOK' /\ VerifiedRanOnCommit'
  BY <1>1 DEF OnlySubmission, repository, TreeOK, RunOK, LookOK, Unseen, VerifiedRanOnCommit
<1>3. ASSUME NEW s \in Submission \cup {NoBundle}, submission' = s,
             s # NoBundle => Left(s.bundle),
             s # NoBundle /\ s.at = "posted" =>
                 ~s.bundle.othersRan \/ s.bundle.stagedSince \/ returns > 0
      PROVE  IInv'
  <2>1. TypeOK'  BY <1>1, <1>3 DEF TypeOK, OnlySubmission, repository
  <2>2. BundlesOK'  BY <1>1, <1>3 DEF BundlesOK, Left, OnlySubmission, repository
  <2>3. SubmittedRanOnCommit'
    BY <1>1, <1>3 DEF SubmittedRanOnCommit, OnlySubmission, repository
  <2> QED  BY <1>2, <2>1, <2>2, <2>3
<1>4. CASE submission' = NoBundle  BY <1>3, <1>4
<1>5. CASE readBundle
  <2>1. bundle # NoBundle /\ bundle \in Bundle  BY <1>5 DEF readBundle, verifyBundle, TypeOK
  <2>2. PICK s \in Submission : /\ s = [at |-> "read", bundle |-> bundle]
                                /\ s.at = "read" /\ s.bundle = bundle
    <3> DEFINE e == [at |-> "read", bundle |-> bundle]
    <3>1. e \in Submission /\ e.at = "read" /\ e.bundle = bundle  BY <2>1 DEF Submission
    <3> QED  BY <3>1
  <2> QED  BY <1>3, <1>5, <2>1, <2>2 DEF readBundle, verifyBundle, BundlesOK
<1>6. CASE submitEvidence /\ HeadIs(submission.bundle)
            /\ submission' = [submission EXCEPT !.at = "posted"]
  <2>1. submission # NoBundle /\ submission \in Submission
    BY <1>6 DEF submitEvidence, TypeOK
  <2>2. PICK s \in Submission : /\ s = [submission EXCEPT !.at = "posted"]
                                /\ s.bundle = submission.bundle
    <3> DEFINE e == [submission EXCEPT !.at = "posted"]
    <3>1. e \in Submission /\ e.bundle = submission.bundle  BY <2>1 DEF Submission
    <3> QED  BY <3>1
  <2>3. Left(s.bundle) /\ head = s.bundle.commit
    BY <1>6, <2>1, <2>2 DEF BundlesOK, HeadIs
  <2>4. returns = 0 \/ returns > 0  BY BoundAssumption DEF TypeOK
  <2>5. ~s.bundle.othersRan \/ s.bundle.stagedSince \/ returns > 0
    BY <2>3, <2>4 DEF Left
  <2> QED  BY <1>3, <1>6, <2>2, <2>3, <2>5
<1> QED  BY <1>4, <1>5, <1>6 DEF SubmitStep, submitEvidence, submitted

\* A stuttering step keeps the invariant.
LEMMA StutterKeeps == IInv /\ UNCHANGED vars => IInv'
BY DEF IInv, vars, repository, TypeOK, TreeOK, RunOK, LookOK, Unseen, BundlesOK, Left,
       VerifiedRanOnCommit, SubmittedRanOnCommit

\* Every step keeps the invariant,
LEMMA NextKeeps == IInv /\ [Next]_vars => IInv'
BY RepositoryStepKeeps, ProcessStepKeeps, DiffKeeps, VerifyStepKeeps, SubmitStepKeeps,
   StutterKeeps
DEF Next, RepositoryStep, ProcessStep, VerifyStep, SubmitStep

\* so it holds in every reachable state.
LEMMA Inductive == Spec => []IInv
BY InitHolds, NextKeeps, PTL DEF Spec
--------------------------------------------------------------------------------
\* No check runs outside its phase or past the policy's last (verify-command.ts,
\* runChecksSequentially).
THEOREM TypeCorrect == Spec => []TypeOK
<1>1. IInv => TypeOK  BY DEF IInv
<1> QED  BY <1>1, Inductive, PTL

\* However long the assignee goes on editing and committing during the checks: a
\* passing bundle is about its commit alone (the two looks of verify-command.ts),
\* unless HEAD moved or something was staged between the reads of the last look
\* (git.ts:209-213), or something went back.
THEOREM VerifiedRanOnCommitHolds == Spec => []VerifiedRanOnCommit
<1>1. IInv => VerifiedRanOnCommit  BY DEF IInv
<1> QED  BY <1>1, Inductive, PTL

\* ... and what is submitted is so even if HEAD moved there (submit-command.ts
\* compares HEAD again); what was staged between those reads remains.
THEOREM SubmittedRanOnCommitHolds == Spec => []SubmittedRanOnCommit
<1>1. IInv => SubmittedRanOnCommit  BY DEF IInv
<1> QED  BY <1>1, Inductive, PTL
================================================================================
