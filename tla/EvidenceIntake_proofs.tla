------------------------- MODULE EvidenceIntake_proofs -------------------------
(***************************************************************************)
(* What EvidenceIntakeProps states, proved for any number of tokens,       *)
(* bundles, runs, attempts and requests.                                   *)
(***************************************************************************)
EXTENDS EvidenceIntakeProps, TLAPS

\* A run that has begun has its token and its bundle, and nothing has been sent
\* for one that has not.
RunOK(r) ==
    /\ runs[r].at = "idle" => /\ runs[r].bundle = NoBundle
                              /\ \A i \in Attempt : uploads[r][i] = Unsent
    /\ runs[r].at # "idle" => runs[r].token \in Token /\ runs[r].bundle \in Bundle

RunsOK == \A r \in Run : RunOK(r)

IsStored(b) == bundles[b] # NoRow

StoredBy(r) == IsStored(runs[r].bundle) /\ bundles[runs[r].bundle].token = runs[r].token

\* An answer that says so, whether it has been read or not, is about a row.
AnswersOK ==
    /\ SuccessIsStored
    /\ \A r \in Run, i \in Attempt : uploads[r][i].answer = "stored" => StoredBy(r)

\* A request has no calldata before its intent is stored.
RequestsOK ==
    /\ HandedIsStored
    /\ \A q \in Request :
           /\ requests[q].at # "answered" => requests[q].walletRequest = NoBundle
           /\ requests[q].at = "signed" =>
                  requests[q].key \in ReceiptKey /\ requests[q].bundle \in Bundle

\* Where a bundle is known: every one that is stored or acknowledged was sent.
Sent(b) == \E r \in Run : runs[r].bundle = b

SentOK ==
    /\ \A b \in Bundle : IsStored(b) => Sent(b) /\ bundles[b].createdAt <= clock
    /\ \A b \in acknowledged : IsStored(b)
    /\ \A r \in Run, i \in Attempt :
           uploads[r][i].at = "begun" => uploads[r][i].createdAt <= clock

\* What was sent after a had been acknowledged is newer than a, stored or about
\* to be.
Newer(a, b) ==
    /\ a \in acknowledged
    /\ Sent(b)
    /\ IsStored(b) => bundles[a].createdAt < bundles[b].createdAt
    /\ \A r \in Run, i \in Attempt :
           runs[r].bundle = b /\ uploads[r][i].at = "begun" =>
               bundles[a].createdAt < uploads[r][i].createdAt

OrderOK == \A a, b \in Bundle : <<a, b>> \in follows => Newer(a, b)

\* An intent knows only what has been acknowledged, which later sends leave alone.
IntentsOK ==
    /\ NewestIsAttested
    /\ \A k \in ReceiptKey : intents[k].known \subseteq acknowledged

IInv == TypeOK /\ RunsOK /\ AnswersOK /\ RequestsOK /\ SentOK /\ OrderOK /\ IntentsOK
--------------------------------------------------------------------------------
\* The invariant holds at the start.
LEMMA InitHolds == Init => IInv
<1> SUFFICES ASSUME Init PROVE IInv  OBVIOUS
<1>1. TypeOK
  BY BoundAssumption, NullAssumption
  DEF Init, TypeOK, Attempt, Clock, Upload, Unsent, Answer, RunRecord, RequestRecord, NoIntent
<1>2. RunsOK  BY DEF Init, RunsOK, RunOK
<1>3. AnswersOK  BY DEF Init, AnswersOK, SuccessIsStored, Unsent
<1>4. RequestsOK  BY DEF Init, RequestsOK, HandedIsStored
<1>5. SentOK  BY DEF Init, SentOK, IsStored, Unsent
<1>6. OrderOK  BY DEF Init, OrderOK
<1>7. IntentsOK  BY DEF Init, IntentsOK, NewestIsAttested, NoIntent
<1> QED  BY <1>1, <1>2, <1>3, <1>4, <1>5, <1>6, <1>7 DEF IInv

\* Writing one attempt of one submission leaves the others alone.
LEMMA UploadUpdated ==
    ASSUME TypeOK, NEW r \in Run, NEW i \in Attempt, NEW u \in Upload
    PROVE  /\ [uploads EXCEPT ![r][i] = u] \in [Run -> [Attempt -> Upload]]
           /\ [uploads EXCEPT ![r][i] = u][r][i] = u
           /\ \A s \in Run, j \in Attempt :
                  <<s, j>> # <<r, i>> => [uploads EXCEPT ![r][i] = u][s][j] = uploads[s][j]
BY DEF TypeOK

\* The server's work on an attempt changes no other, and only persistEvidence
\* stores anything.
ServerStep(r, i) ==
    authenticate(r, i) \/ beginUpload(r, i) \/ persistEvidence(r, i) \/ failUpload(r, i)

\* What all of it comes to: the attempt was sent, and is refused, goes on, begins
\* its transaction, is answered from the row, or adds the row.
Refused(r, i) ==
    /\ UNCHANGED <<bundles, clock>>
    /\ uploads'[r][i].answer = "stored" => uploads[r][i].answer = "stored"
    /\ uploads'[r][i].at # "begun"

Begins(r, i) ==
    /\ clock' = clock + 1
    /\ clock' \in Clock
    /\ uploads'[r][i].at = "begun"
    /\ uploads'[r][i].answer = "stored" => uploads[r][i].answer = "stored"
    /\ uploads'[r][i].createdAt = clock'
    /\ UNCHANGED bundles

Replayed(r, i) ==
    /\ TokenBinds(runs[r].token)
    /\ bundles[runs[r].bundle].token = runs[r].token
    /\ uploads'[r][i].at # "begun"
    /\ UNCHANGED <<bundles, clock>>

Stores(r, i) ==
    /\ uploads[r][i].at = "begun"
    /\ tokens[runs[r].token] = "active"
    /\ bundles[runs[r].bundle] = NoRow
    /\ bundles' = [bundles EXCEPT ![runs[r].bundle] =
           [token |-> runs[r].token, createdAt |-> uploads[r][i].createdAt]]
    /\ uploads'[r][i].at # "begun"
    /\ UNCHANGED clock

\* A step of the upload's handler is a refusal, a start, a replay or a store.
LEMMA ServerStepIs ==
    ASSUME TypeOK, RunsOK, NEW r \in Run, NEW i \in Attempt, ServerStep(r, i)
    PROVE  /\ UNCHANGED <<tokens, runs, acknowledged, follows, receiptVars>>
           /\ runs[r].token \in Token /\ runs[r].bundle \in Bundle
           /\ uploads'[r][i] \in Upload
           /\ uploads' = [uploads EXCEPT ![r][i] = uploads'[r][i]]
           /\ Refused(r, i) \/ Begins(r, i) \/ Replayed(r, i) \/ Stores(r, i)
<1>1. uploads[r][i] \in Upload /\ uploads[r] \in [Attempt -> Upload]  BY DEF TypeOK
<1>2. uploads[r][i].at # "unsent"
  BY <1>1 DEF ServerStep, authenticate, beginUpload, persistEvidence, failUpload
<1>3. runs[r].token \in Token /\ runs[r].bundle \in Bundle  BY <1>2 DEF RunsOK, RunOK, Unsent
<1>4. ASSUME NEW answer \in Answer, AnswerUpload(r, i, answer)
      PROVE  /\ uploads'[r][i] \in Upload
             /\ uploads' = [uploads EXCEPT ![r][i] = uploads'[r][i]]
             /\ uploads'[r][i].at = "answered"
             /\ uploads'[r][i].answer \in {"none", answer}
  <2>1. PICK new \in Upload :
            /\ new.at = "answered" /\ new.answer \in {"none", answer}
            /\ uploads' = [uploads EXCEPT ![r][i] = new]
    <3> DEFINE ans == IF runs[r].at = "waiting" /\ runs[r].attempt = i
                        THEN answer ELSE "none"
    <3>1. ans \in {"none", answer} /\ ans \in Answer  BY DEF Answer
    <3> HIDE DEF ans
    <3>2. [at |-> "answered", createdAt |-> 0, answer |-> ans] \in Upload
      BY <3>1, BoundAssumption DEF Upload, Clock
    <3>3. uploads' = [uploads EXCEPT ![r][i] = [at |-> "answered", createdAt |-> 0, answer |-> ans]]
      BY <1>4 DEF AnswerUpload, ans
    <3> QED  BY <3>1, <3>2, <3>3
  <2>2. uploads'[r][i] = new  BY <2>1, UploadUpdated
  <2> QED  BY <2>1, <2>2
<1>5. ASSUME NEW answer \in Answer, Refuse(r, i, answer)
      PROVE  /\ UNCHANGED <<tokens, bundles, clock, runs, acknowledged, follows, receiptVars>>
             /\ uploads'[r][i] \in Upload
             /\ uploads' = [uploads EXCEPT ![r][i] = uploads'[r][i]]
             /\ uploads'[r][i].at # "begun"
             /\ uploads'[r][i].answer \in {"none", answer}
  BY <1>4, <1>5 DEF Refuse
<1>6. CASE authenticate(r, i)
  <2>1. CASE Refuse(r, i, "retryable") \/ Refuse(r, i, "refused")
    BY <1>3, <1>5, <2>1 DEF Refused, Answer
  <2>2. CASE ~(Refuse(r, i, "retryable") \/ Refuse(r, i, "refused"))
    <3> DEFINE new == [uploads[r][i] EXCEPT !.at = "authenticated"]
    <3>1. uploads[r][i].at = "sent"  BY <1>6 DEF authenticate
    <3>2. new \in Upload  BY <1>1 DEF Upload
    <3>3. uploads' = [uploads EXCEPT ![r][i] = new]  BY <1>1, <1>6, <2>2 DEF authenticate, TypeOK
    <3>4. uploads'[r][i] = new  BY <3>2, <3>3, UploadUpdated
    <3>5. /\ uploads'[r][i].at = "authenticated"
          /\ uploads'[r][i].answer = uploads[r][i].answer
      BY <1>1, <3>4 DEF Upload
    <3>6. UNCHANGED <<tokens, bundles, clock, runs, acknowledged, follows, receiptVars>>
      BY <1>6, <2>2 DEF authenticate
    <3> QED  BY <1>2, <1>3, <3>1, <3>2, <3>3, <3>4, <3>5, <3>6 DEF Refused
  <2> QED  BY <2>1, <2>2
<1>7. CASE beginUpload(r, i)
  <2> DEFINE new == [uploads[r][i] EXCEPT !.at = "begun", !.createdAt = clock']
  <2>1. clock' = clock + 1 /\ clock' \in Clock
    BY <1>7, BoundAssumption DEF beginUpload, TypeOK, Clock
  <2>2. PICK up \in Upload : up = new
    BY <1>1, <2>1 DEF Upload
  <2>3. uploads' = [uploads EXCEPT ![r][i] = up]
    BY <1>1, <1>7, <2>2 DEF beginUpload, TypeOK
  <2>4. uploads'[r][i] = up  BY <2>3, UploadUpdated
  <2>5. /\ uploads'[r][i].at = "begun"
        /\ uploads'[r][i].createdAt = clock'
        /\ uploads'[r][i].answer = uploads[r][i].answer
    BY <1>1, <2>2, <2>4 DEF Upload
  <2>6. UNCHANGED <<tokens, bundles, runs, acknowledged, follows, receiptVars>>
    BY <1>7 DEF beginUpload
  <2> QED  BY <1>3, <2>1, <2>2, <2>3, <2>4, <2>5, <2>6 DEF Begins
<1>8. CASE persistEvidence(r, i)
  <2>1. CASE Refuse(r, i, "refused") \/ Refuse(r, i, "retryable")
    BY <1>3, <1>5, <2>1 DEF Refused, Answer
  <2>2. CASE /\ TokenBinds(runs[r].token) /\ Replays(runs[r].token, runs[r].bundle)
             /\ Refuse(r, i, "stored")
    BY <1>3, <1>5, <2>2 DEF Replayed, Replays, Answer
  <2>3. CASE /\ TokenBinds(runs[r].token) /\ bundles[runs[r].bundle] = NoRow
             /\ bundles' = [bundles EXCEPT ![runs[r].bundle] =
                    [token |-> runs[r].token, createdAt |-> uploads[r][i].createdAt]]
             /\ \E answer \in {"stored", "refused"} : AnswerUpload(r, i, answer)
             /\ UNCHANGED <<tokens, clock, runs, acknowledged, follows, receiptVars>>
    <3>1. uploads[r][i].at = "begun"  BY <1>8 DEF persistEvidence
    <3> QED  BY <1>3, <1>4, <2>3, <3>1 DEF Stores, TokenBinds, Answer
  <2> QED  BY <1>8, <2>1, <2>2, <2>3 DEF persistEvidence
<1>9. CASE failUpload(r, i)
  BY <1>3, <1>5, <1>9 DEF failUpload, Refused, Answer
<1> QED  BY <1>6, <1>7, <1>8, <1>9 DEF ServerStep

\* What follows from the rows: they stay as they are, and the server's clock
\* never runs back.
LEMMA ServerStepKeeps ==
    ASSUME IInv, NEW r \in Run, NEW i \in Attempt, ServerStep(r, i)
    PROVE  IInv'
<1> USE DEF IInv
<1>1. /\ UNCHANGED <<tokens, runs, acknowledged, follows, intents, requests>>
      /\ runs[r].token \in Token /\ runs[r].bundle \in Bundle
      /\ uploads'[r][i] \in Upload
      /\ uploads' = [uploads EXCEPT ![r][i] = uploads'[r][i]]
      /\ Refused(r, i) \/ Begins(r, i) \/ Replayed(r, i) \/ Stores(r, i)
  BY ServerStepIs DEF receiptVars
<1>2. /\ uploads' \in [Run -> [Attempt -> Upload]]
      /\ \A s \in Run, j \in Attempt :
             <<s, j>> # <<r, i>> => uploads'[s][j] = uploads[s][j]
  <2>1. PICK u \in Upload : u = uploads'[r][i]  BY <1>1
  <2>2. uploads' = [uploads EXCEPT ![r][i] = u]  BY <1>1, <2>1
  <2> QED  BY <2>2, UploadUpdated
<1>3. /\ clock' \in Clock /\ clock <= clock' /\ clock' \in Int /\ clock \in Int
      /\ Begins(r, i) => clock < clock'
  BY <1>1 DEF Refused, Begins, Replayed, Stores, TypeOK, Clock
<1>4. PICK row \in BundleRow :
          Stores(r, i) => /\ row.token = runs[r].token
                          /\ row.createdAt = uploads[r][i].createdAt
                          /\ bundles' = [bundles EXCEPT ![runs[r].bundle] = row]
  <2>1. uploads[r][i].createdAt \in Clock  BY DEF TypeOK, Upload
  <2>2. [token |-> runs[r].token, createdAt |-> uploads[r][i].createdAt] \in BundleRow
    BY <1>1, <2>1 DEF BundleRow
  <2> QED  BY <2>2 DEF Stores
<1>5. /\ bundles' \in [Bundle -> BundleRow \cup {NoRow}]
      /\ \A b \in Bundle : bundles'[b] = bundles[b]
             \/ (Stores(r, i) /\ b = runs[r].bundle /\ ~IsStored(b) /\ bundles'[b] = row)
  BY <1>1, <1>4 DEF Refused, Begins, Replayed, Stores, TypeOK, IsStored
<1>6. row # NoRow  BY <1>4, NullAssumption DEF BundleRow, NoRow
<1>7. /\ \A b \in Bundle : IsStored(b) => bundles'[b] = bundles[b] /\ IsStored(b)'
      /\ \A b \in Bundle : IsStored(b)' /\ ~IsStored(b) =>
             Stores(r, i) /\ b = runs[r].bundle /\ bundles'[b] = row
  BY <1>5, <1>6 DEF IsStored
<1>8. TypeOK'
  BY <1>1, <1>2, <1>3, <1>5 DEF TypeOK
<1>9. RunsOK'
  <2>1. runs[r].at # "idle"  BY <1>1, NullAssumption DEF RunsOK, RunOK
  <2> QED  BY <1>1, <1>2, <2>1 DEF RunsOK, RunOK
<1>10. AnswersOK'
  <2>1. ASSUME NEW s \in Run, runs[s].bundle \in Bundle, StoredBy(s)
        PROVE  bundles'[runs[s].bundle] # NoRow /\ bundles'[runs[s].bundle].token = runs[s].token
    BY <1>7, <2>1 DEF StoredBy, IsStored
  <2>2. SuccessIsStored'
    <3>1. \A s \in Run : runs[s].at = "succeeded" => StoredBy(s) /\ runs[s].bundle \in Bundle
      BY DEF AnswersOK, SuccessIsStored, StoredBy, IsStored, RunsOK, RunOK
    <3> QED  BY <1>1, <2>1, <3>1 DEF SuccessIsStored
  <2>3. ASSUME NEW s \in Run, NEW j \in Attempt, uploads'[s][j].answer = "stored"
        PROVE  bundles'[runs[s].bundle] # NoRow /\ bundles'[runs[s].bundle].token = runs[s].token
    <3>1. CASE uploads[s][j].answer = "stored"
      <4>1. runs[s].bundle \in Bundle  BY <3>1 DEF RunsOK, RunOK, Unsent
      <4> QED  BY <2>1, <3>1, <4>1 DEF AnswersOK
    <3>2. CASE uploads[s][j].answer # "stored"
      <4>1. s = r /\ j = i  BY <1>2, <2>3, <3>2
      <4>2. Replayed(r, i) \/ Stores(r, i)
        BY <1>1, <2>3, <3>2, <4>1 DEF Refused, Begins
      <4>3. CASE Replayed(r, i)
        BY <1>1, <4>1, <4>3, NullAssumption DEF Replayed, NoRow
      <4>4. CASE Stores(r, i)
        <5>1. bundles'[runs[r].bundle] = row  BY <1>1, <1>4, <4>4 DEF TypeOK
        <5> QED  BY <1>4, <1>6, <4>1, <4>4, <5>1
      <4> QED  BY <4>2, <4>3, <4>4
    <3> QED  BY <3>1, <3>2
  <2> QED  BY <1>1, <2>2, <2>3 DEF AnswersOK, StoredBy, IsStored
<1>11. RequestsOK'
  BY <1>1 DEF RequestsOK, HandedIsStored
<1>12. SentOK'
  <2>1. ASSUME NEW b \in Bundle, IsStored(b)'
        PROVE  Sent(b)' /\ bundles'[b].createdAt <= clock'
    <3>1. CASE IsStored(b)
      <4>1. bundles[b].createdAt \in Int
        BY <3>1 DEF TypeOK, IsStored, BundleRow, Clock
      <4> QED  BY <1>1, <1>3, <1>7, <3>1, <4>1 DEF SentOK, Sent
    <3>2. CASE ~IsStored(b)
      <4>1. Stores(r, i) /\ b = runs[r].bundle /\ bundles'[b] = row  BY <1>7, <2>1, <3>2
      <4>2. uploads[r][i].createdAt <= clock  BY <4>1 DEF Stores, SentOK
      <4>3. row.createdAt <= clock /\ row.createdAt \in Int
        BY <1>4, <4>1, <4>2 DEF BundleRow, Clock
      <4> QED  BY <1>1, <1>3, <4>1, <4>3 DEF Sent
    <3> QED  BY <3>1, <3>2
  <2>2. \A b \in acknowledged' : IsStored(b)'
    BY <1>1, <1>7 DEF SentOK, TypeOK
  <2>3. ASSUME NEW s \in Run, NEW j \in Attempt, uploads'[s][j].at = "begun"
        PROVE  uploads'[s][j].createdAt <= clock'
    <3>1. CASE s = r /\ j = i
      BY <1>1, <1>3, <2>3, <3>1 DEF Refused, Begins, Replayed, Stores
    <3>2. CASE ~(s = r /\ j = i)
      <4>1. uploads[s][j].createdAt \in Int  BY DEF TypeOK, Upload, Clock
      <4> QED  BY <1>2, <1>3, <2>3, <3>2, <4>1 DEF SentOK
    <3> QED  BY <3>1, <3>2
  <2> QED  BY <2>1, <2>2, <2>3 DEF SentOK
<1>13. OrderOK'
  <2> SUFFICES ASSUME NEW a \in Bundle, NEW b \in Bundle, <<a, b>> \in follows
               PROVE  Newer(a, b)'
    BY <1>1 DEF OrderOK
  <2>1. Newer(a, b)  BY DEF OrderOK
  <2>2. /\ bundles'[a] = bundles[a] /\ bundles[a].createdAt \in Int
        /\ bundles[a].createdAt <= clock
    BY <1>7, <2>1 DEF Newer, SentOK, TypeOK, IsStored, BundleRow, Clock
  <2>3. IsStored(b)' => bundles[a].createdAt < bundles'[b].createdAt
    <3>1. CASE IsStored(b)  BY <1>7, <2>1, <3>1 DEF Newer
    <3>2. CASE ~IsStored(b) /\ IsStored(b)'
      <4>1. Stores(r, i) /\ b = runs[r].bundle /\ bundles'[b] = row  BY <1>7, <3>2
      <4> QED  BY <1>4, <2>1, <4>1 DEF Newer, Stores
    <3> QED  BY <3>1, <3>2
  <2>4. ASSUME NEW s \in Run, NEW j \in Attempt, runs[s].bundle = b, uploads'[s][j].at = "begun"
        PROVE  bundles[a].createdAt < uploads'[s][j].createdAt
    <3>1. CASE s = r /\ j = i
      BY <1>1, <1>3, <2>2, <2>4, <3>1 DEF Refused, Begins, Replayed, Stores
    <3>2. CASE ~(s = r /\ j = i)
      BY <1>2, <2>1, <2>4, <3>2 DEF Newer
    <3> QED  BY <3>1, <3>2
  <2> QED  BY <1>1, <2>1, <2>2, <2>3, <2>4 DEF Newer, Sent
<1>14. IntentsOK'
  BY <1>1 DEF IntentsOK, NewestIsAttested
<1> QED  BY <1>8, <1>9, <1>10, <1>11, <1>12, <1>13, <1>14
--------------------------------------------------------------------------------
\* timeOut and readAnswer: the run stays the one it is, nothing begins at the
\* server, and it succeeds only on an answer that says so.
ClientStep(r) == timeOut(r) \/ readAnswer(r)

Moves(r) ==
    /\ runs[r].at = "waiting"
    /\ runs' \in [Run -> RunRecord]
    /\ \A s \in Run : /\ s # r => runs'[s] = runs[s]
                      /\ runs'[s].token = runs[s].token
                      /\ runs'[s].bundle = runs[s].bundle
    /\ runs'[r].at # "idle"
    /\ uploads' \in [Run -> [Attempt -> Upload]]
    /\ \A s \in Run, j \in Attempt :
           /\ s # r => uploads'[s][j] = uploads[s][j]
           /\ uploads'[s][j].answer = "stored" => uploads[s][j].answer = "stored"
           /\ uploads'[s][j].at = "begun" =>
                  uploads[s][j].at = "begun" /\ uploads'[s][j].createdAt = uploads[s][j].createdAt

\* The end of a submission moves that submission only.
LEMMA SettleMoves ==
    ASSUME TypeOK, NEW r \in Run, NEW at \in {"succeeded", "failed"},
           runs[r].at = "waiting", Settle(r, at)
    PROVE  Moves(r) /\ runs'[r].at = at
<1> DEFINE i == runs[r].attempt
<1>1. i \in Attempt /\ uploads[r][i] \in Upload  BY DEF TypeOK, RunRecord
<1>2. PICK run \in RunRecord : run = [runs[r] EXCEPT !.at = at]  BY DEF TypeOK, RunRecord
<1>3. PICK new \in Upload : new = [uploads[r][i] EXCEPT !.answer = "none"]
  BY <1>1 DEF Upload, Answer
<1>4. /\ runs' = [runs EXCEPT ![r] = run]
      /\ uploads' = [uploads EXCEPT ![r][i] = new]
  BY <1>1, <1>2, <1>3 DEF Settle, TypeOK
<1>5. /\ run.at = at /\ run.token = runs[r].token /\ run.bundle = runs[r].bundle
      /\ new.answer = "none" /\ new.at = uploads[r][i].at
      /\ new.createdAt = uploads[r][i].createdAt
  BY <1>1, <1>2, <1>3 DEF TypeOK, RunRecord, Upload
<1> HIDE DEF i
<1>6. /\ runs' \in [Run -> RunRecord] /\ runs'[r] = run
      /\ \A s \in Run : s # r => runs'[s] = runs[s]
  BY <1>4 DEF TypeOK
<1>7. /\ uploads' \in [Run -> [Attempt -> Upload]]
      /\ uploads'[r][i] = new
      /\ \A s \in Run, j \in Attempt : <<s, j>> # <<r, i>> => uploads'[s][j] = uploads[s][j]
  BY <1>1, <1>4, UploadUpdated
<1> QED  BY <1>5, <1>6, <1>7 DEF Moves

\* A retry moves its submission only, and reports no success.
LEMMA TryAgainMoves ==
    ASSUME TypeOK, NEW r \in Run, runs[r].at = "waiting", TryAgain(r)
    PROVE  Moves(r) /\ runs'[r].at # "succeeded"
<1> DEFINE i == runs[r].attempt
<1>1. i \in Attempt /\ uploads[r][i] \in Upload  BY DEF TypeOK, RunRecord
<1>2. CASE i < ATTEMPTS
  <2>1. i + 1 \in Attempt /\ i + 1 # i  BY <1>1, <1>2, BoundAssumption DEF Attempt
  <2>2. PICK run \in RunRecord : run = [runs[r] EXCEPT !.attempt = i + 1]
    BY <2>1 DEF TypeOK, RunRecord
  <2>3. PICK new \in Upload : new = [uploads[r][i] EXCEPT !.answer = "none"]
    BY <1>1 DEF Upload, Answer
  <2>4. PICK next : next = i + 1  OBVIOUS
  <2>5. /\ runs' = [runs EXCEPT ![r] = run]
        /\ uploads' = [uploads EXCEPT ![r][i] = new, ![r][next] = Sending]
    BY <1>1, <1>2, <2>2, <2>3, <2>4 DEF TryAgain, TypeOK
  <2>6. /\ run.at = "waiting" /\ run.token = runs[r].token /\ run.bundle = runs[r].bundle
        /\ new.answer = "none" /\ new.at = uploads[r][i].at
        /\ new.createdAt = uploads[r][i].createdAt
    BY <1>1, <2>2, <2>3 DEF TypeOK, RunRecord, Upload
  <2>7. Sending \in Upload /\ Sending.answer = "none" /\ Sending.at = "sent"
    BY BoundAssumption DEF Sending, Unsent, Upload, Answer, Clock
  <2> HIDE DEF i
  <2>8. /\ runs' \in [Run -> RunRecord] /\ runs'[r] = run
        /\ \A s \in Run : s # r => runs'[s] = runs[s]
    BY <2>5 DEF TypeOK
  <2>9. PICK between \in [Run -> [Attempt -> Upload]] :
             /\ between = [uploads EXCEPT ![r][i] = new]
             /\ between[r][i] = new
             /\ \A s \in Run, j \in Attempt :
                    <<s, j>> # <<r, i>> => between[s][j] = uploads[s][j]
    <3> DEFINE e == [uploads EXCEPT ![r][i] = new]
    <3>1. /\ e \in [Run -> [Attempt -> Upload]]
          /\ e[r][i] = new
          /\ \A s \in Run, j \in Attempt : <<s, j>> # <<r, i>> => e[s][j] = uploads[s][j]
      BY <1>1, UploadUpdated
    <3> QED  BY <3>1
  <2>10. uploads' = [between EXCEPT ![r][next] = Sending]
    BY <2>5, <2>9
  <2>11. /\ uploads' \in [Run -> [Attempt -> Upload]]
         /\ uploads'[r][next] = Sending
         /\ \A s \in Run, j \in Attempt :
                <<s, j>> # <<r, next>> => uploads'[s][j] = between[s][j]
    BY <2>1, <2>4, <2>7, <2>9, <2>10
  <2>12. /\ runs'[r].at # "idle" /\ runs'[r].at # "succeeded"
         /\ \A s \in Run : /\ s # r => runs'[s] = runs[s]
                           /\ runs'[s].token = runs[s].token
                           /\ runs'[s].bundle = runs[s].bundle
    BY <2>6, <2>8
  <2>13. ASSUME NEW s \in Run, NEW j \in Attempt
         PROVE  /\ s # r => uploads'[s][j] = uploads[s][j]
                /\ uploads'[s][j].answer = "stored" => uploads[s][j].answer = "stored"
                /\ uploads'[s][j].at = "begun" =>
                      /\ uploads[s][j].at = "begun"
                      /\ uploads'[s][j].createdAt = uploads[s][j].createdAt
    <3>1. CASE s = r /\ j = next  BY <2>7, <2>11, <3>1
    <3>2. CASE s = r /\ j = i /\ j # next  BY <2>6, <2>9, <2>11, <3>2
    <3>3. CASE ~(s = r /\ j = next) /\ ~(s = r /\ j = i)  BY <2>9, <2>11, <3>3
    <3> QED  BY <3>1, <3>2, <3>3
  <2> QED  BY <2>8, <2>11, <2>12, <2>13 DEF Moves
<1>3. CASE ~(i < ATTEMPTS)
  BY <1>3, SettleMoves DEF TryAgain
<1> QED  BY <1>2, <1>3

\* The tool reports success only of a bundle that its answer says is stored.
LEMMA ClientStepMoves ==
    ASSUME IInv, NEW r \in Run, ClientStep(r)
    PROVE  /\ Moves(r)
           /\ UNCHANGED <<tokens, bundles, clock, follows, intents, requests>>
           /\ runs'[r].at = "succeeded" => StoredBy(r)
           /\ acknowledged' = IF runs'[r].at = "succeeded"
                                 THEN acknowledged \cup {runs[r].bundle} ELSE acknowledged
<1> USE DEF IInv
<1>1. runs[r].at = "waiting"  BY DEF ClientStep, timeOut, readAnswer
<1>2. runs[r].attempt \in Attempt  BY DEF TypeOK, RunRecord
<1>3. CASE timeOut(r)
  BY <1>1, <1>3, TryAgainMoves DEF timeOut, receiptVars
<1>4. CASE readAnswer(r)
  <2> DEFINE answer == uploads[r][runs[r].attempt].answer
  <2>1. /\ UNCHANGED <<tokens, bundles, clock, follows, intents, requests>>
        /\ acknowledged' = IF runs'[r].at = "succeeded"
                              THEN acknowledged \cup {runs[r].bundle} ELSE acknowledged
    BY <1>4 DEF readAnswer, receiptVars
  <2>2. CASE answer = "stored" /\ Settle(r, "succeeded")
    BY <1>1, <1>2, <2>1, <2>2, SettleMoves DEF AnswersOK
  <2>3. CASE TryAgain(r)  BY <1>1, <2>1, <2>3, TryAgainMoves
  <2>4. CASE Settle(r, "failed")  BY <1>1, <2>1, <2>4, SettleMoves
  <2> QED  BY <1>4, <2>2, <2>3, <2>4 DEF readAnswer
<1> QED  BY <1>3, <1>4 DEF ClientStep

\* The steps of the tool keep the invariant.
LEMMA ClientStepKeeps ==
    ASSUME IInv, NEW r \in Run, ClientStep(r)
    PROVE  IInv'
<1> USE DEF IInv
<1>1. /\ Moves(r)
      /\ UNCHANGED <<tokens, bundles, clock, follows, intents, requests>>
      /\ runs'[r].at = "succeeded" => StoredBy(r)
      /\ acknowledged' = IF runs'[r].at = "succeeded"
                            THEN acknowledged \cup {runs[r].bundle} ELSE acknowledged
  BY ClientStepMoves
<1>2. runs[r].token \in Token /\ runs[r].bundle \in Bundle
  BY <1>1 DEF Moves, RunsOK, RunOK
<1>m. /\ runs'[r].at # "idle"
      /\ \A s \in Run : runs'[s].token = runs[s].token /\ runs'[s].bundle = runs[s].bundle
  BY <1>1 DEF Moves
<1>3. /\ acknowledged \subseteq acknowledged'
      /\ acknowledged' \subseteq Bundle
      /\ \A b \in acknowledged' : b \in acknowledged \/ (b = runs[r].bundle /\ IsStored(b))
  BY <1>1, <1>2 DEF TypeOK, StoredBy
<1>4. TypeOK'
  BY <1>1, <1>3 DEF TypeOK, Moves
<1>5. RunsOK'
  <2> SUFFICES ASSUME NEW s \in Run PROVE RunOK(s)'  BY DEF RunsOK
  <2>1. CASE s = r  BY <1>2, <1>m, <2>1 DEF RunOK
  <2>2. CASE s # r
    <3>1. runs'[s] = runs[s] /\ \A j \in Attempt : uploads'[s][j] = uploads[s][j]
      BY <1>1, <2>2 DEF Moves
    <3> QED  BY <3>1 DEF RunsOK, RunOK
  <2> QED  BY <2>1, <2>2
<1>6. AnswersOK'
  <2>1. ASSUME NEW s \in Run, runs'[s].at = "succeeded" PROVE StoredBy(s)
    <3>1. CASE s = r  BY <1>1, <2>1, <3>1
    <3>2. CASE s # r
      BY <1>1, <2>1, <3>2 DEF Moves, AnswersOK, SuccessIsStored, StoredBy, IsStored
    <3> QED  BY <3>1, <3>2
  <2>2. \A s \in Run, j \in Attempt : uploads'[s][j].answer = "stored" => StoredBy(s)
    BY <1>1 DEF Moves, AnswersOK
  <2>3. \A s \in Run : StoredBy(s) =>
            bundles'[runs'[s].bundle] # NoRow /\ bundles'[runs'[s].bundle].token = runs'[s].token
    BY <1>1, <1>m DEF StoredBy, IsStored
  <2> QED  BY <2>1, <2>2, <2>3 DEF AnswersOK, SuccessIsStored, StoredBy, IsStored
<1>7. RequestsOK'  BY <1>1 DEF RequestsOK, HandedIsStored
<1>8. \A b \in Bundle : Sent(b)' <=> Sent(b)  BY <1>m DEF Sent
<1>9. SentOK'
  <2>1. \A b \in Bundle : IsStored(b)' => Sent(b)' /\ bundles'[b].createdAt <= clock'
    BY <1>1, <1>8 DEF SentOK, IsStored
  <2>2. \A b \in acknowledged' : IsStored(b)'
    BY <1>1, <1>3 DEF SentOK, IsStored
  <2>3. \A s \in Run, j \in Attempt :
            uploads'[s][j].at = "begun" => uploads'[s][j].createdAt <= clock'
    BY <1>1 DEF SentOK, Moves
  <2> QED  BY <2>1, <2>2, <2>3 DEF SentOK
<1>10. OrderOK'
  <2> SUFFICES ASSUME NEW a \in Bundle, NEW b \in Bundle, <<a, b>> \in follows
               PROVE  Newer(a, b)'
    BY <1>1 DEF OrderOK
  <2>1. Newer(a, b)  BY DEF OrderOK
  <2>2. \A s \in Run, j \in Attempt :
            runs'[s].bundle = b /\ uploads'[s][j].at = "begun" =>
                bundles'[a].createdAt < uploads'[s][j].createdAt
    <3>1. \A s \in Run, j \in Attempt :
              uploads'[s][j].at = "begun" =>
                  uploads[s][j].at = "begun" /\ uploads'[s][j].createdAt = uploads[s][j].createdAt
      BY <1>1 DEF Moves
    <3> QED  BY <1>1, <1>m, <2>1, <3>1 DEF Newer
  <2>3. a \in acknowledged' /\ Sent(b)'
    BY <1>3, <1>8, <2>1 DEF Newer
  <2>4. IsStored(b)' => bundles'[a].createdAt < bundles'[b].createdAt
    BY <1>1, <2>1 DEF Newer, IsStored
  <2> QED  BY <2>2, <2>3, <2>4 DEF Newer
<1>11. IntentsOK'
  BY <1>1, <1>3 DEF IntentsOK, NewestIsAttested
<1> QED  BY <1>4, <1>5, <1>6, <1>7, <1>9, <1>10, <1>11

\* So does the start of a submission,
LEMMA SubmitKeeps ==
    ASSUME IInv, NEW r \in Run, NEW k \in Token, NEW b \in Bundle, submitEvidence(r, k, b)
    PROVE  IInv'
<1> USE DEF IInv
<1>1. /\ runs[r].at = "idle"
      /\ UNCHANGED <<tokens, bundles, clock, acknowledged, intents, requests>>
  BY DEF submitEvidence, receiptVars
<1>2. runs[r].bundle = NoBundle /\ \A i \in Attempt : uploads[r][i] = Unsent
  BY <1>1 DEF RunsOK, RunOK
<1>3. PICK run \in RunRecord :
          /\ run.at = "waiting" /\ run.token = k /\ run.bundle = b
          /\ runs' = [runs EXCEPT ![r] = run]
  <2> DEFINE new == [runs[r] EXCEPT !.at = "waiting", !.token = k, !.bundle = b]
  <2>1. new \in RunRecord /\ new.at = "waiting" /\ new.token = k /\ new.bundle = b
    BY DEF TypeOK, RunRecord
  <2>2. runs' = [runs EXCEPT ![r] = new]  BY DEF submitEvidence, TypeOK
  <2> QED  BY <2>1, <2>2
<1>4. /\ runs' \in [Run -> RunRecord] /\ runs'[r] = run
      /\ \A s \in Run : s # r => runs'[s] = runs[s]
  BY <1>3 DEF TypeOK
<1>5. /\ 1 \in Attempt
      /\ Sending \in Upload /\ Sending.at = "sent" /\ Sending.answer = "none"
  BY BoundAssumption DEF Attempt, Sending, Unsent, Upload, Answer, Clock
<1>6. PICK one \in Attempt : one = 1  BY <1>5
<1>7. /\ uploads' \in [Run -> [Attempt -> Upload]]
      /\ uploads'[r][one] = Sending
      /\ \A s \in Run, j \in Attempt :
             <<s, j>> # <<r, one>> => uploads'[s][j] = uploads[s][j]
  <2>1. uploads' = [uploads EXCEPT ![r][one] = Sending]  BY <1>6 DEF submitEvidence
  <2> QED  BY <1>5, <2>1, UploadUpdated
<1>8. \A s \in Run, j \in Attempt :
          /\ s # r => uploads'[s][j] = uploads[s][j]
          /\ s = r => uploads'[s][j].at # "begun" /\ uploads'[s][j].answer = "none"
  BY <1>2, <1>5, <1>7 DEF Unsent
<1>9. follows' \subseteq follows \cup (acknowledged \X {b})
      /\ (Sent(b) => follows' = follows)
  BY DEF submitEvidence, Sent
<1>10. b # NoBundle  BY NullAssumption
<1>11. \A c \in Bundle : Sent(c)' <=> Sent(c) \/ c = b
  BY <1>2, <1>3, <1>4, NullAssumption DEF Sent
<1>12. TypeOK'
  BY <1>1, <1>4, <1>7, <1>9 DEF TypeOK
<1>13. RunsOK'
  <2> SUFFICES ASSUME NEW s \in Run PROVE RunOK(s)'  BY DEF RunsOK
  <2>1. CASE s = r  BY <1>3, <1>4, <2>1 DEF RunOK
  <2>2. CASE s # r
    <3>1. runs'[s] = runs[s] /\ \A j \in Attempt : uploads'[s][j] = uploads[s][j]
      BY <1>4, <1>8, <2>2
    <3> QED  BY <3>1 DEF RunsOK, RunOK
  <2> QED  BY <2>1, <2>2
<1>14. AnswersOK'
  <2>1. ASSUME NEW s \in Run, runs'[s].at = "succeeded"
        PROVE  bundles'[runs'[s].bundle] # NoRow /\ bundles'[runs'[s].bundle].token = runs'[s].token
    <3>1. s # r  BY <1>3, <1>4, <2>1
    <3> QED  BY <1>1, <1>4, <2>1, <3>1 DEF AnswersOK, SuccessIsStored
  <2>2. ASSUME NEW s \in Run, NEW j \in Attempt, uploads'[s][j].answer = "stored"
        PROVE  bundles'[runs'[s].bundle] # NoRow /\ bundles'[runs'[s].bundle].token = runs'[s].token
    <3>1. s # r  BY <1>8, <2>2
    <3>2. StoredBy(s)  BY <1>8, <2>2, <3>1 DEF AnswersOK
    <3> QED  BY <1>1, <1>4, <3>1, <3>2 DEF StoredBy, IsStored
  <2> QED  BY <2>1, <2>2 DEF AnswersOK, SuccessIsStored, StoredBy, IsStored
<1>15. RequestsOK'  BY <1>1 DEF RequestsOK, HandedIsStored
<1>16. SentOK'
  <2>1. \A c \in Bundle : IsStored(c)' => Sent(c)' /\ bundles'[c].createdAt <= clock'
    BY <1>1, <1>11 DEF SentOK, IsStored
  <2>2. \A c \in acknowledged' : IsStored(c)'  BY <1>1 DEF SentOK, IsStored
  <2>3. \A s \in Run, j \in Attempt :
            uploads'[s][j].at = "begun" => uploads'[s][j].createdAt <= clock'
    BY <1>1, <1>8 DEF SentOK
  <2> QED  BY <2>1, <2>2, <2>3 DEF SentOK
<1>17. OrderOK'
  <2> SUFFICES ASSUME NEW a \in Bundle, NEW c \in Bundle, <<a, c>> \in follows'
               PROVE  Newer(a, c)'
    BY DEF OrderOK
  <2>1. CASE <<a, c>> \in follows
    <3>1. Newer(a, c)  BY <2>1 DEF OrderOK
    <3>2. ASSUME NEW s \in Run, NEW j \in Attempt,
                 runs'[s].bundle = c, uploads'[s][j].at = "begun"
          PROVE  bundles'[a].createdAt < uploads'[s][j].createdAt
      <4>1. s # r  BY <1>8, <3>2
      <4> QED  BY <1>1, <1>4, <1>8, <3>1, <3>2, <4>1 DEF Newer
    <3> QED  BY <1>1, <1>11, <3>1, <3>2 DEF Newer, IsStored
  <2>2. CASE <<a, c>> \notin follows
    <3>1. a \in acknowledged /\ c = b /\ ~Sent(b)  BY <1>9, <2>2
    <3>2. ~IsStored(b)  BY <3>1 DEF SentOK
    <3>3. ASSUME NEW s \in Run, NEW j \in Attempt,
                 runs'[s].bundle = c, uploads'[s][j].at = "begun"
          PROVE  FALSE
      <4>1. s # r  BY <1>8, <3>3
      <4> QED  BY <1>4, <3>1, <3>3, <4>1 DEF Sent
    <3> QED  BY <1>1, <1>11, <3>1, <3>2, <3>3 DEF Newer, IsStored
  <2> QED  BY <2>1, <2>2
<1>18. IntentsOK'
  <2>1. ASSUME NEW j \in ReceiptKey, NEW c \in intents[j].known
        PROVE  <<intents[j].bundle, c>> \notin follows'
    <3>1. c \in acknowledged /\ <<intents[j].bundle, c>> \notin follows
      BY DEF IntentsOK, NewestIsAttested
    <3>2. c \in Bundle /\ Sent(c)  BY <3>1 DEF SentOK, TypeOK
    <3> QED  BY <1>9, <3>1, <3>2
  <2> QED  BY <1>1, <2>1 DEF IntentsOK, NewestIsAttested
<1> QED  BY <1>12, <1>13, <1>14, <1>15, <1>16, <1>17, <1>18
--------------------------------------------------------------------------------
\* What only the receipts and their requests decide.
LEMMA ReceiptsKeep ==
    ASSUME IInv, UNCHANGED <<tokens, bundles, clock, submitVars>>,
           intents' \in [ReceiptKey -> Intent \cup {NoIntent}],
           requests' \in [Request -> RequestRecord],
           RequestsOK', IntentsOK'
    PROVE  IInv'
<1> USE DEF IInv, submitVars
<1>1. TypeOK'  BY DEF TypeOK
<1>2. RunsOK'  BY DEF RunsOK, RunOK
<1>3. AnswersOK'  BY DEF AnswersOK, SuccessIsStored, StoredBy, IsStored
<1>4. SentOK'  BY DEF SentOK, Sent, IsStored
<1>5. OrderOK'  BY DEF OrderOK, Newer, Sent, IsStored
<1> QED  BY <1>1, <1>2, <1>3, <1>4, <1>5

\* the signing of an attestation, after the newest evidence was read,
LEMMA SignKeeps ==
    ASSUME IInv, NEW q \in Request, NEW k \in ReceiptKey, NEW b \in Bundle,
           signAttestation(q, k, b)
    PROVE  IInv'
<1> USE DEF IInv
<1>1. requests[q].at = "idle" /\ UNCHANGED <<tokens, bundles, clock, submitVars, intents>>
  BY DEF signAttestation
<1>2. PICK new \in RequestRecord :
          /\ new.at = "signed" /\ new.key = k /\ new.bundle = b
          /\ new.walletRequest = NoBundle
          /\ requests' = [requests EXCEPT ![q] = new]
  <2> DEFINE signed == [requests[q] EXCEPT !.at = "signed", !.key = k, !.bundle = b]
  <2>1. requests[q].walletRequest = NoBundle  BY <1>1 DEF RequestsOK
  <2>2. /\ signed \in RequestRecord /\ signed.at = "signed" /\ signed.key = k
        /\ signed.bundle = b /\ signed.walletRequest = NoBundle
    BY <2>1 DEF TypeOK, RequestRecord
  <2>3. requests' = [requests EXCEPT ![q] = signed]  BY DEF signAttestation, TypeOK
  <2> QED  BY <2>2, <2>3
<1>3. /\ requests' \in [Request -> RequestRecord] /\ requests'[q] = new
      /\ \A p \in Request : p # q => requests'[p] = requests[p]
  BY <1>2 DEF TypeOK
<1>4. RequestsOK'  BY <1>1, <1>2, <1>3 DEF RequestsOK, HandedIsStored
<1>5. IntentsOK'  BY <1>1 DEF IntentsOK, NewestIsAttested, submitVars
<1> QED  BY <1>1, <1>3, <1>4, <1>5, ReceiptsKeep DEF TypeOK

\* The bundle is the newest: what followed an attested one would be newer.
LEMMA NothingFollowsLatest ==
    ASSUME IInv, NEW x \in Bundle, LatestPassing(x), NEW b \in acknowledged
    PROVE  <<x, b>> \notin follows
<1> USE DEF IInv
<1>1. b \in Bundle /\ IsStored(b)  BY DEF SentOK, TypeOK
<1>2. bundles[b].createdAt <= bundles[x].createdAt
  BY <1>1 DEF LatestPassing, Stored, IsStored
<1>3. bundles[b].createdAt \in Int /\ bundles[x].createdAt \in Int
  BY DEF TypeOK, BundleRow, NoRow, Clock
<1>4. <<x, b>> \in follows => bundles[x].createdAt < bundles[b].createdAt
  BY <1>1 DEF OrderOK, Newer
<1> QED  BY <1>2, <1>3, <1>4

\* the transaction that stores the intent, which reads it again,
LEMMA IntentKeeps ==
    ASSUME IInv, NEW q \in Request, createReceiptChainIntent(q)
    PROVE  IInv'
<1> USE DEF IInv
<1> DEFINE k == requests[q].key
           x == requests[q].bundle
<1>1. /\ requests[q].at = "signed" /\ k \in ReceiptKey /\ x \in Bundle
      /\ UNCHANGED <<tokens, bundles, clock, submitVars>>
  BY DEF createReceiptChainIntent, RequestsOK
<1>2. ASSUME NEW w \in {NoBundle, x}, AnswerRequest(q, w)
      PROVE  /\ requests' \in [Request -> RequestRecord]
             /\ requests'[q].at = "answered" /\ requests'[q].key = k
             /\ requests'[q].walletRequest = w
             /\ \A p \in Request : p # q => requests'[p] = requests[p]
  <2> DEFINE answered == [requests[q] EXCEPT !.at = "answered", !.bundle = NoBundle,
                                             !.walletRequest = w]
  <2>1. PICK new \in RequestRecord :
            new.at = "answered" /\ new.key = k /\ new.walletRequest = w /\ new = answered
    BY <1>1 DEF TypeOK, RequestRecord
  <2>2. requests' = [requests EXCEPT ![q] = new]  BY <1>2, <2>1 DEF AnswerRequest, TypeOK
  <2> QED  BY <2>1, <2>2 DEF TypeOK
<1>3. CASE AnswerRequest(q, NoBundle) /\ UNCHANGED intents
  <2>1. RequestsOK'  BY <1>2, <1>3 DEF RequestsOK, HandedIsStored
  <2>2. IntentsOK'  BY <1>1, <1>3 DEF IntentsOK, NewestIsAttested, submitVars
  <2> QED  BY <1>1, <1>2, <1>3, <2>1, <2>2, ReceiptsKeep DEF TypeOK
<1>4. CASE /\ ~ReplaysIntent(q) /\ Storable(q) /\ AnswerRequest(q, x)
           /\ intents' = [intents EXCEPT ![k] =
                  [status |-> "live", bundle |-> x, known |-> acknowledged]]
  <2>1. PICK new \in Intent :
            /\ new.bundle = x /\ new.known = acknowledged
            /\ intents' = [intents EXCEPT ![k] = new]
    <3>1. [status |-> "live", bundle |-> x, known |-> acknowledged] \in Intent
      BY <1>1 DEF Intent, TypeOK
    <3> QED  BY <1>4, <3>1
  <2>2. /\ intents' \in [ReceiptKey -> Intent \cup {NoIntent}] /\ intents'[k] = new
        /\ \A j \in ReceiptKey : j # k => intents'[j] = intents[j]
    BY <1>1, <2>1 DEF TypeOK
  <2>3. intents[k].bundle = NoBundle  BY <1>4 DEF ReplaysIntent, NoIntent
  <2>4. RequestsOK'
    <3>1. ASSUME NEW p \in Request, requests'[p].walletRequest # NoBundle
          PROVE  intents'[requests'[p].key].bundle = requests'[p].walletRequest
      <4>1. CASE p = q  BY <1>2, <1>4, <2>1, <2>2, <4>1
      <4>2. CASE p # q
        <5>1. requests'[p] = requests[p]  BY <1>2, <1>4, <4>2
        <5>2. /\ requests[p].walletRequest # NoBundle
              /\ intents[requests[p].key].bundle = requests[p].walletRequest
          BY <3>1, <5>1 DEF RequestsOK, HandedIsStored
        <5>3. requests[p].key # k  BY <2>3, <5>2
        <5>4. intents'[requests[p].key] = intents[requests[p].key]
          BY <1>1, <2>1, <5>3 DEF TypeOK
        <5> QED  BY <5>1, <5>2, <5>4
      <4> QED  BY <4>1, <4>2
    <3> QED  BY <1>2, <1>4, <3>1 DEF RequestsOK, HandedIsStored
  <2>5. IntentsOK'
    <3>1. LatestPassing(x)  BY <1>4 DEF Storable
    <3>2. ASSUME NEW j \in ReceiptKey
          PROVE  /\ intents'[j].known \subseteq acknowledged
                 /\ \A b \in intents'[j].known : <<intents'[j].bundle, b>> \notin follows
      <4>1. CASE j = k  BY <1>1, <2>1, <2>2, <3>1, <4>1, NothingFollowsLatest
      <4>2. CASE j # k  BY <2>2, <4>2 DEF IntentsOK, NewestIsAttested
      <4> QED  BY <4>1, <4>2
    <3> QED  BY <1>1, <3>2 DEF IntentsOK, NewestIsAttested, submitVars
  <2> QED  BY <1>1, <1>2, <1>4, <2>2, <2>4, <2>5, ReceiptsKeep
<1> QED  BY <1>3, <1>4 DEF createReceiptChainIntent, WalletRequest

\* the end of an intent that makes room for another,
LEMMA EndIntentKeeps ==
    ASSUME IInv, NEW k \in ReceiptKey, endIntent(k)
    PROVE  IInv'
<1> USE DEF IInv
<1>1. intents[k].status = "live" /\ UNCHANGED <<tokens, bundles, clock, submitVars, requests>>
  BY DEF endIntent
<1>2. intents[k] \in Intent  BY <1>1 DEF TypeOK, NoIntent
<1>3. PICK new \in Intent :
          /\ new.bundle = intents[k].bundle /\ new.known = intents[k].known
          /\ intents' = [intents EXCEPT ![k] = new]
  <2> DEFINE over == [intents[k] EXCEPT !.status = "over"]
  <2>1. /\ over \in Intent /\ over.bundle = intents[k].bundle
        /\ over.known = intents[k].known
    BY <1>2 DEF Intent
  <2>2. intents' = [intents EXCEPT ![k] = over]  BY DEF endIntent, TypeOK
  <2> QED  BY <2>1, <2>2
<1>4. /\ intents' \in [ReceiptKey -> Intent \cup {NoIntent}]
      /\ \A j \in ReceiptKey : /\ intents'[j].bundle = intents[j].bundle
                               /\ intents'[j].known = intents[j].known
  BY <1>3 DEF TypeOK
<1>5. RequestsOK'
  <2>1. ASSUME NEW p \in Request, requests[p].walletRequest # NoBundle
        PROVE  intents'[requests[p].key].bundle = requests[p].walletRequest
    <3>1. intents[requests[p].key].bundle = requests[p].walletRequest
      BY <2>1 DEF RequestsOK, HandedIsStored
    <3>2. CASE requests[p].key \in ReceiptKey  BY <1>4, <3>1, <3>2
    <3>3. CASE requests[p].key \notin ReceiptKey
      <4>1. requests[p].key # k  BY <3>3
      <4> QED  BY <1>3, <3>1, <4>1 DEF TypeOK
    <3> QED  BY <3>2, <3>3
  <2> QED  BY <1>1, <2>1 DEF RequestsOK, HandedIsStored
<1>6. IntentsOK'  BY <1>1, <1>4 DEF IntentsOK, NewestIsAttested, submitVars
<1> QED  BY <1>1, <1>4, <1>5, <1>6, ReceiptsKeep DEF TypeOK

\* and the issue and the revocation of a token.
LEMMA TokensKeep ==
    ASSUME IInv, NEW k \in Token, createCliToken(k) \/ revokeCliToken(k)
    PROVE  IInv'
<1> USE DEF IInv, submitVars, receiptVars
<1>1. UNCHANGED <<bundles, clock, submitVars, receiptVars>>
  BY DEF createCliToken, revokeCliToken
<1>2. tokens' \in [Token -> {"absent", "active", "revoked"}]
  BY DEF createCliToken, revokeCliToken, TypeOK
<1>3. TypeOK'  BY <1>1, <1>2 DEF TypeOK
<1>4. RunsOK'  BY <1>1 DEF RunsOK, RunOK
<1>5. AnswersOK'  BY <1>1 DEF AnswersOK, SuccessIsStored, StoredBy, IsStored
<1>6. RequestsOK'  BY <1>1 DEF RequestsOK, HandedIsStored
<1>7. SentOK'  BY <1>1 DEF SentOK, Sent, IsStored
<1>8. OrderOK'  BY <1>1 DEF OrderOK, Newer, Sent, IsStored
<1>9. IntentsOK'  BY <1>1 DEF IntentsOK, NewestIsAttested
<1> QED  BY <1>3, <1>4, <1>5, <1>6, <1>7, <1>8, <1>9

\* A stuttering step keeps the invariant.
LEMMA StutterKeeps == IInv /\ UNCHANGED vars => IInv'
<1> SUFFICES ASSUME IInv, UNCHANGED vars PROVE IInv'  OBVIOUS
<1> USE DEF IInv, vars
<1>1. RequestsOK' /\ IntentsOK'
  BY DEF RequestsOK, HandedIsStored, IntentsOK, NewestIsAttested, submitVars, receiptVars
<1> QED  BY <1>1, ReceiptsKeep DEF TypeOK, receiptVars

\* Every step keeps the invariant,
LEMMA NextKeeps == IInv /\ [Next]_vars => IInv'
BY TokensKeep, SubmitKeeps, ClientStepKeeps, ServerStepKeeps, SignKeeps, IntentKeeps,
   EndIntentKeeps, StutterKeeps DEF Next, ClientStep, ServerStep

\* so it holds in every reachable state.
LEMMA Inductive == Spec => []IInv
BY InitHolds, NextKeeps, PTL DEF Spec
--------------------------------------------------------------------------------
\* Every table, request and answer has its type: `donebond submit` reads only
\* answers the endpoint of evidence-handlers.ts gives.
THEOREM TypeCorrect == Spec => []TypeOK
<1>1. IInv => TypeOK  BY DEF IInv
<1> QED  BY <1>1, Inductive, PTL

\* However many attempts, timeouts and tokens: a run that reports success has
\* its bundle stored, under its token (submit-command.ts, persistEvidenceBundle).
THEOREM SuccessIsStoredHolds == Spec => []SuccessIsStored
<1>1. IInv => SuccessIsStored  BY DEF IInv, AnswersOK
<1> QED  BY <1>1, Inductive, PTL

\* The calldata of a receipt carries the attestation that is stored with its
\* row (receipt-handlers.ts answers a replay without calldata).
THEOREM HandedIsStoredHolds == Spec => []HandedIsStored
<1>1. IInv => HandedIsStored  BY DEF IInv, RequestsOK
<1> QED  BY <1>1, Inductive, PTL

\* A receipt attests the newest evidence its requester could know of, however
\* many bundles race it (createReceiptChainIntent reads it again).
THEOREM NewestIsAttestedHolds == Spec => []NewestIsAttested
<1>1. IInv => NewestIsAttested  BY DEF IInv, IntentsOK
<1> QED  BY <1>1, Inductive, PTL

\* Nothing is stored under a revoked token, and no row is ever replaced
\* (persistEvidenceBundle checks the token under its lock).
THEOREM RevocationIsFinalHolds == Spec => RevocationIsFinal
<1> DEFINE Step == \A b \in Bundle :
                     bundles'[b] # bundles[b] =>
                         bundles[b] = NoRow /\ tokens[bundles'[b].token] = "active"
<1>1. IInv /\ [Next]_vars => Step
  <2> SUFFICES ASSUME IInv, [Next]_vars, NEW b \in Bundle, bundles'[b] # bundles[b]
               PROVE  bundles[b] = NoRow /\ tokens[bundles'[b].token] = "active"
    OBVIOUS
  <2>1. PICK r \in Run, i \in Attempt : ServerStep(r, i)
    BY DEF Next, vars, createCliToken, revokeCliToken, submitEvidence, timeOut, readAnswer,
           signAttestation, createReceiptChainIntent, endIntent, ServerStep
  <2>2. Stores(r, i)
    BY <2>1, ServerStepIs DEF IInv, Refused, Begins, Replayed
  <2>3. runs[r].bundle = b  BY <2>2 DEF Stores, IInv, TypeOK
  <2>4. bundles'[b].token = runs[r].token  BY <2>2, <2>3 DEF Stores, IInv, TypeOK
  <2> QED  BY <2>2, <2>3, <2>4 DEF Stores
<1>2. IInv /\ [Next]_vars => [Step]_vars  BY <1>1
<1> QED  BY <1>2, Inductive, PTL DEF Spec, RevocationIsFinal
================================================================================
