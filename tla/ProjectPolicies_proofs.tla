------------------------- MODULE ProjectPolicies_proofs ------------------------
(***************************************************************************)
(* What ProjectPoliciesProps and TaskIntents state, proved for any number  *)
(* of projects, keys and requests in flight.                               *)
(***************************************************************************)
EXTENDS TaskIntents, FiniteSetTheorems, TLAPS

\* The reservation is what has been answered under the key.
ReservedOK ==
    \A s \in Slot :
        /\ reservations[s] = Free => audits[s] = 0 /\ answers[s] = {}
        /\ reservations[s] # Free => /\ audits[s] \in {0, 1}
                                     /\ answers[s] = {reservations[s].response}

Taken(operation, k) == reservations[<<operation, k>>] # Free

\* Every row was made under its key, in a project that exists.
NamedOK ==
    \A p \in Project :
        /\ projects[p] # NoProject => Taken("project_create", p)
        /\ \A k \in PolicyKey : policies[p][k] # NoPolicy =>
               projects[p] # NoProject /\ Taken("policy_create", k)
        /\ \A k \in TaskKey : tasks[p][k] # NoTask =>
               projects[p] # NoProject /\ Taken("task_create", k)

ActiveOK ==
    \A p \in Project :
        projects[p] # NoProject /\ projects[p].active # NoPolicy =>
            policies[p][projects[p].active] # NoPolicy

\* What a request has read of the policy stays true: policies never change.
CallsOK ==
    \A c \in Call :
        calls[c] # Idle =>
            /\ projects[calls[c].project] # NoProject
            /\ policies[calls[c].project][calls[c].row.policy] = calls[c].row.policyHash

IInv == TypeOK /\ ReservedOK /\ NamedOK /\ ActiveOK /\ CallsOK /\ TaskKeepsRepository
--------------------------------------------------------------------------------
\* The slots the operations use.
LEMMA SlotsExist ==
    /\ \A p \in Project : <<"project_create", p>> \in Slot
    /\ \A k \in UpdateKey : <<"project_update", k>> \in Slot
    /\ \A k \in PolicyKey : <<"policy_create", k>> \in Slot
    /\ \A k \in ActivateKey : <<"policy_activate", k>> \in Slot
    /\ \A k \in TaskKey : <<"task_create", k>> \in Slot
BY DEF Slot

LEMMA ChainSlotsExist ==
    /\ \A i \in IntentKey : <<"chain_intent_create", i>> \in Slot
    /\ \A o \in OutcomeKey, status \in {"submitted", "rejected_by_user"} :
           <<Operation(status), o>> \in Slot
BY DEF Slot, Operation

\* The invariant holds at the start.
LEMMA InitHolds == Init => IInv
<1> SUFFICES ASSUME Init PROVE IInv  OBVIOUS
<1>1. TypeOK  BY DEF Init, TypeOK
<1>2. ReservedOK  BY DEF Init, ReservedOK
<1>3. NamedOK  BY DEF Init, NamedOK
<1>4. ActiveOK  BY DEF Init, ActiveOK
<1>5. CallsOK  BY DEF Init, CallsOK
<1>6. TaskKeepsRepository  BY DEF Init, TaskKeepsRepository
<1> QED  BY <1>1, <1>2, <1>3, <1>4, <1>5, <1>6 DEF IInv

\* A replay gives the answer that has been given.
LEMMA ReplayChangesNothing ==
    ASSUME IInv, NEW s \in Slot, reservations[s] # Free,
           Replay(s, reservations[s].response), UNCHANGED calls
    PROVE  UNCHANGED vars
<1>1. answers \in [Slot -> SUBSET Response]  BY DEF IInv, TypeOK
<1>2. answers[s] = {reservations[s].response}  BY DEF IInv, ReservedOK
<1>3. answers' = answers  BY <1>1, <1>2 DEF Replay, Answer
<1> QED  BY <1>3 DEF Replay, vars, tables, history

\* A transaction that commits takes its slot, and no other changes.
LEMMA CompletionKeeps ==
    ASSUME IInv, NEW s \in Slot, reserve(s), NEW request \in AskedFor, NEW response \in Response,
           NEW effects \in {0, 1}, completeReservation(s, request, response, effects)
    PROVE  /\ ReservedOK'
           /\ reservations' \in [Slot -> Reservation \cup {Free}]
           /\ answers' \in [Slot -> SUBSET Response]
           /\ audits' \in [Slot -> Nat]
           /\ reservations'[s] # Free
           /\ \A z \in Slot : reservations[z] # Free => reservations'[z] # Free
<1> DEFINE done == [request |-> request, response |-> response]
<1>1. done \in Reservation /\ done # Free  BY RowAssumption DEF Reservation, Free
<1>2. /\ reservations' \in [Slot -> Reservation \cup {Free}]
      /\ reservations'[s] = done /\ reservations'[s].response = response
      /\ \A z \in Slot : z # s => reservations'[z] = reservations[z]
  <2>1. reservations' = [reservations EXCEPT ![s] = done]  BY DEF completeReservation
  <2> QED  BY <1>1, <2>1 DEF IInv, TypeOK
<1> HIDE DEF done
<1>3. audits[s] = 0 /\ answers[s] = {}  BY DEF IInv, ReservedOK, reserve
<1>4. /\ audits' \in [Slot -> Nat]
      /\ audits'[s] = effects
      /\ \A z \in Slot : z # s => audits'[z] = audits[z]
  BY <1>3 DEF completeReservation, IInv, TypeOK
<1>5. /\ answers' \in [Slot -> SUBSET Response]
      /\ answers'[s] = {response}
      /\ \A z \in Slot : z # s => answers'[z] = answers[z]
  BY <1>3 DEF completeReservation, Answer, IInv, TypeOK
<1>6. ReservedOK'
  <2> SUFFICES ASSUME NEW z \in Slot
               PROVE  /\ reservations'[z] = Free => audits'[z] = 0 /\ answers'[z] = {}
                      /\ reservations'[z] # Free =>
                             /\ audits'[z] \in {0, 1}
                             /\ answers'[z] = {reservations'[z].response}
    BY DEF ReservedOK
  <2>1. CASE z = s  BY <1>1, <1>2, <1>4, <1>5, <2>1
  <2>2. CASE z # s  BY <1>2, <1>4, <1>5, <2>2 DEF IInv, ReservedOK
  <2> QED  BY <2>1, <2>2
<1> QED  BY <1>1, <1>2, <1>4, <1>5, <1>6

\* What is left to show of a transaction that commits under slot s.
LEMMA CommitKeeps ==
    ASSUME IInv, NEW s \in Slot, reserve(s), NEW request \in AskedFor, NEW response \in Response,
           NEW effects \in {0, 1}, completeReservation(s, request, response, effects),
           projects' \in [Project -> ProjectRow \cup {NoProject}],
           policies' \in [Project -> [PolicyKey -> PolicyHash \cup {NoPolicy}]],
           tasks' \in [Project -> [TaskKey -> TaskRow \cup {NoTask}]],
           calls' \in [Call -> CallRecord \cup {Idle}],
           NamedOK', ActiveOK', CallsOK', TaskKeepsRepository'
    PROVE  IInv'
<1>1. TypeOK'  BY CompletionKeeps DEF TypeOK
<1> QED  BY <1>1, CompletionKeeps DEF IInv

\* A stuttering step keeps the invariant.
LEMMA StutterKeeps == IInv /\ UNCHANGED vars => IInv'
BY DEF IInv, vars, tables, history, TypeOK, ReservedOK, NamedOK, Taken, ActiveOK, CallsOK,
       TaskKeepsRepository
--------------------------------------------------------------------------------
\* The answer that is stored with a key is an answer.
LEMMA ViewTyped ==
    ASSUME TypeOK, NEW p \in Project, NEW row \in ProjectRow
    PROVE  projectView(p, row) \in Response
<1>1. /\ row.repository \in Repository /\ row.status \in Status
      /\ row.active = NoPolicy \/ row.active \in PolicyKey
  BY DEF ProjectRow
<1>2. ActivePolicyHash(p, row.active) \in PolicyHash \cup {NoPolicy}
  BY <1>1 DEF ActivePolicyHash, TypeOK
<1> QED  BY <1>1, <1>2 DEF projectView, ProjectView, Response

\* A change to one project, under a slot that was free.
LEMMA CreateProjectKeeps ==
    ASSUME IInv, NEW p \in Project, NEW r \in Repository, createProject(p, r)
    PROVE  IInv'
<1> USE DEF IInv
<1> DEFINE s == <<"project_create", p>>
           request == [project |-> p, repository |-> r]
           row == [repository |-> r, status |-> "active", active |-> NoPolicy]
<1>1. s \in Slot  BY SlotsExist
<1>2. CASE reserve(s)
  <2>1. /\ projects' = [projects EXCEPT ![p] = row]
        /\ completeReservation(s, request, projectView(p, row), 1)
        /\ UNCHANGED <<policies, tasks, calls>>
    BY <1>2 DEF createProject, Replays, reserve
  <2>2. /\ row \in ProjectRow /\ row # NoProject /\ row.active = NoPolicy
        /\ request \in AskedFor
    BY RowAssumption DEF ProjectRow, Status, AskedFor, CreateRequest
  <2>3. projectView(p, row) \in Response  BY <2>2, ViewTyped
  <2> HIDE DEF row, request
  <2>4. /\ projects' \in [Project -> ProjectRow \cup {NoProject}] /\ projects'[p] = row
        /\ \A x \in Project : x # p => projects'[x] = projects[x]
    BY <2>1, <2>2 DEF TypeOK
  <2>5. projects[p] = NoProject  BY <1>2 DEF reserve, NamedOK, Taken
  <2>6. /\ reservations'[s] # Free
        /\ \A z \in Slot : reservations[z] # Free => reservations'[z] # Free
    BY <1>1, <1>2, <2>1, <2>2, <2>3, CompletionKeeps
  <2>7. NamedOK'  BY <2>1, <2>4, <2>5, <2>6, SlotsExist DEF NamedOK, Taken
  <2>8. ActiveOK'  BY <2>1, <2>2, <2>4 DEF ActiveOK
  <2>9. CallsOK'
    <3>1. \A c \in Call : calls[c] # Idle => calls[c].project \in Project  BY DEF TypeOK, CallRecord
    <3> QED  BY <2>1, <2>2, <2>4, <3>1 DEF CallsOK
  <2>10. TaskKeepsRepository'
    BY <2>1, <2>4, <2>5 DEF TaskKeepsRepository, NamedOK
  <2> QED
    BY <1>1, <1>2, <2>1, <2>2, <2>3, <2>4, <2>7, <2>8, <2>9, <2>10, CommitKeeps DEF TypeOK
<1>3. CASE ~reserve(s)
  <2>1. UNCHANGED vars
    BY <1>1, <1>3, ReplayChangesNothing DEF createProject, Replays, replayProject
  <2> QED  BY <2>1, StutterKeeps
<1> QED  BY <1>2, <1>3

\* A change of the project, or its replay, keeps the invariant;
LEMMA UpdateProjectKeeps ==
    ASSUME IInv, NEW p \in Project, NEW k \in UpdateKey, NEW patch \in Patch,
           updateProject(p, k, patch)
    PROVE  IInv'
<1> USE DEF IInv
<1> DEFINE s == <<"project_update", k>>
           request == [project |-> p, patch |-> patch]
           new == [projects[p] EXCEPT !.repository = Patched(@, patch.repository),
                                      !.status = Patched(@, patch.status)]
<1>1. s \in Slot /\ projects[p] # NoProject  BY SlotsExist DEF updateProject
<1>2. CASE reserve(s)
  <2>1. /\ projects' = [projects EXCEPT ![p] = new]
        /\ RepositoryFree(p, patch)
        /\ completeReservation(s, request, projectView(p, new), 1)
        /\ UNCHANGED <<policies, tasks, calls>>
    BY <1>2 DEF updateProject, Replays, reserve
  <2>2. projects[p] \in ProjectRow  BY <1>1 DEF TypeOK
  <2>3. /\ patch.repository \in Repository \cup {Keep}
        /\ patch.status \in Status \cup {Keep}
    BY PatchAssumption DEF Status
  <2>4. PICK row \in ProjectRow :
            /\ row = new /\ row.active = projects[p].active
            /\ row.repository = Patched(projects[p].repository, patch.repository)
    <3>1. /\ Patched(projects[p].repository, patch.repository) \in Repository
          /\ Patched(projects[p].status, patch.status) \in Status
      BY <2>2, <2>3 DEF ProjectRow, Patched
    <3>2. /\ new \in ProjectRow /\ new.active = projects[p].active
          /\ new.repository = Patched(projects[p].repository, patch.repository)
      BY <2>2, <3>1 DEF ProjectRow
    <3> QED  BY <3>2
  <2>5. row # NoProject /\ request \in AskedFor
    BY RowAssumption DEF AskedFor, UpdateRequest
  <2>6. projectView(p, new) \in Response  BY <2>4, ViewTyped
  <2>7. /\ projects' \in [Project -> ProjectRow \cup {NoProject}] /\ projects'[p] = row
        /\ \A x \in Project : x # p => projects'[x] = projects[x]
    BY <2>1, <2>4 DEF TypeOK
  <2> HIDE DEF new, request
  <2>8. \A z \in Slot : reservations[z] # Free => reservations'[z] # Free
    BY <1>1, <1>2, <2>1, <2>5, <2>6, CompletionKeeps
  <2>9. NamedOK'  BY <1>1, <2>1, <2>5, <2>7, <2>8, SlotsExist DEF NamedOK, Taken
  <2>10. ActiveOK'  BY <1>1, <2>1, <2>4, <2>7 DEF ActiveOK
  <2>11. CallsOK'
    <3>1. \A c \in Call : calls[c] # Idle => calls[c].project \in Project  BY DEF TypeOK, CallRecord
    <3> QED  BY <2>1, <2>5, <2>7, <3>1 DEF CallsOK
  <2>12. TaskKeepsRepository'
    <3>1. (\A t \in TaskKey : tasks[p][t] = NoTask) \/ row.repository = projects[p].repository
      BY <2>1, <2>4 DEF RepositoryFree, Patched
    <3> QED  BY <2>1, <2>7, <3>1 DEF TaskKeepsRepository
  <2> QED
    BY <1>1, <1>2, <2>1, <2>5, <2>6, <2>7, <2>9, <2>10, <2>11, <2>12, CommitKeeps DEF TypeOK
<1>3. CASE ~reserve(s)
  <2>1. UNCHANGED vars
    BY <1>1, <1>3, ReplayChangesNothing DEF updateProject, Replays, replayProject
  <2> QED  BY <2>1, StutterKeeps
<1> QED  BY <1>2, <1>3

\* so does a new version of the policy, active or not,
LEMMA CreatePolicyKeeps ==
    ASSUME IInv, NEW p \in Project, NEW k \in PolicyKey, NEW h \in PolicyHash,
           NEW activate \in BOOLEAN, createPolicyVersion(p, k, h, activate)
    PROVE  IInv'
<1> USE DEF IInv
<1> DEFINE s == <<"policy_create", k>>
           request == [project |-> p, policyHash |-> h, activate |-> activate]
           response == [policyHash |-> h, isActive |-> activate]
<1>1. s \in Slot /\ projects[p] # NoProject  BY SlotsExist DEF createPolicyVersion
<1>2. CASE reserve(s)
  <2>1. /\ policies' = [policies EXCEPT ![p][k] = h]
        /\ IF activate THEN switchActivePolicy(p, k) ELSE UNCHANGED projects
        /\ completeReservation(s, request, response, 1)
        /\ UNCHANGED <<tasks, calls>>
    BY <1>2 DEF createPolicyVersion, Replays, reserve
  <2>2. request \in AskedFor /\ response \in Response
    BY DEF AskedFor, PolicyRequest, Response, PolicyView
  <2> HIDE DEF request, response
  <2>3. projects[p] \in ProjectRow  BY <1>1 DEF TypeOK
  <2>4. PICK row \in ProjectRow :
            /\ row.repository = projects[p].repository
            /\ row.active \in {projects[p].active, k}
            /\ projects' = [projects EXCEPT ![p] = row]
    <3>1. CASE activate
      <4>1. PICK row \in ProjectRow :
                /\ row = [projects[p] EXCEPT !.active = k]
                /\ row.repository = projects[p].repository /\ row.active = k
        <5> DEFINE e == [projects[p] EXCEPT !.active = k]
        <5>1. e \in ProjectRow /\ e.repository = projects[p].repository /\ e.active = k
          BY <2>3 DEF ProjectRow
        <5> QED  BY <5>1
      <4>2. projects' = [projects EXCEPT ![p] = row]
        BY <2>1, <3>1, <4>1 DEF switchActivePolicy, TypeOK
      <4> QED  BY <4>1, <4>2
    <3>2. CASE ~activate  BY <2>1, <2>3, <3>2 DEF TypeOK
    <3> QED  BY <3>1, <3>2
  <2>5. row # NoProject  BY RowAssumption
  <2>6. /\ projects' \in [Project -> ProjectRow \cup {NoProject}] /\ projects'[p] = row
        /\ \A x \in Project : x # p => projects'[x] = projects[x]
    BY <2>4 DEF TypeOK
  <2>7. policies[p][k] = NoPolicy  BY <1>2 DEF reserve, NamedOK, Taken
  <2>8. /\ policies' \in [Project -> [PolicyKey -> PolicyHash \cup {NoPolicy}]]
        /\ policies'[p][k] = h
        /\ \A x \in Project, y \in PolicyKey :
               <<x, y>> # <<p, k>> => policies'[x][y] = policies[x][y]
    BY <2>1 DEF TypeOK
  <2>9. h # NoPolicy  BY NullAssumption
  <2>10. /\ reservations'[s] # Free
         /\ \A z \in Slot : reservations[z] # Free => reservations'[z] # Free
    BY <1>1, <1>2, <2>1, <2>2, CompletionKeeps
  <2>11. NamedOK'
    <3>1. ASSUME NEW x \in Project
          PROVE  /\ projects'[x] # NoProject => projects[x] # NoProject
                 /\ projects[x] # NoProject => projects'[x] # NoProject
      BY <1>1, <2>5, <2>6
    <3>2. ASSUME NEW x \in Project, NEW y \in PolicyKey, policies'[x][y] # NoPolicy
          PROVE  projects[x] # NoProject /\ reservations'[<<"policy_create", y>>] # Free
      <4>1. CASE x = p /\ y = k  BY <1>1, <2>10, <4>1
      <4>2. CASE ~(x = p /\ y = k)
        BY <2>8, <2>10, <3>2, <4>2, SlotsExist DEF NamedOK, Taken
      <4> QED  BY <4>1, <4>2
    <3>3. \A x \in Project, y \in TaskKey : tasks[x][y] # NoTask =>
              projects[x] # NoProject /\ reservations'[<<"task_create", y>>] # Free
      BY <2>10, SlotsExist DEF NamedOK, Taken
    <3>4. \A x \in Project : projects[x] # NoProject =>
              reservations'[<<"project_create", x>>] # Free
      BY <2>10, SlotsExist DEF NamedOK, Taken
    <3> QED  BY <2>1, <3>1, <3>2, <3>3, <3>4 DEF NamedOK, Taken
  <2>12. ActiveOK'
    <3> SUFFICES ASSUME NEW x \in Project, projects'[x] # NoProject,
                        projects'[x].active # NoPolicy
                 PROVE  policies'[x][projects'[x].active] # NoPolicy
      BY DEF ActiveOK
    <3>1. projects'[x].active \in PolicyKey  BY <2>6 DEF ProjectRow
    <3>2. CASE x = p /\ projects'[x].active = k  BY <2>8, <2>9, <3>2
    <3>3. CASE ~(x = p /\ projects'[x].active = k)
      <4>1. projects[x] # NoProject /\ projects'[x].active = projects[x].active
        BY <1>1, <2>4, <2>6, <3>3
      <4> QED  BY <2>8, <3>1, <3>3, <4>1 DEF ActiveOK
    <3> QED  BY <3>2, <3>3
  <2>13. CallsOK'
    <3> SUFFICES ASSUME NEW c \in Call, calls[c] # Idle
                 PROVE  /\ projects'[calls[c].project] # NoProject
                        /\ policies'[calls[c].project][calls[c].row.policy] = calls[c].row.policyHash
      BY <2>1 DEF CallsOK
    <3>1. /\ calls[c].project \in Project /\ calls[c].row.policy \in PolicyKey
          /\ calls[c].row.policyHash \in PolicyHash
      BY DEF TypeOK, CallRecord, TaskRow
    <3>2. <<calls[c].project, calls[c].row.policy>> # <<p, k>>
      BY <2>7, <3>1, NullAssumption DEF CallsOK
    <3> QED  BY <2>5, <2>6, <2>8, <3>1, <3>2 DEF CallsOK
  <2>14. TaskKeepsRepository'  BY <2>1, <2>4, <2>6 DEF TaskKeepsRepository
  <2> QED
    BY <1>1, <1>2, <2>1, <2>2, <2>6, <2>8, <2>11, <2>12, <2>13, <2>14, CommitKeeps DEF TypeOK
<1>3. CASE ~reserve(s)
  <2>1. UNCHANGED vars
    BY <1>1, <1>3, ReplayChangesNothing DEF createPolicyVersion, Replays
  <2> QED  BY <2>1, StutterKeeps
<1> QED  BY <1>2, <1>3

\* the activation of a version, which retires the active one,
LEMMA ActivatePolicyKeeps ==
    ASSUME IInv, NEW p \in Project, NEW k \in ActivateKey, NEW target \in PolicyKey,
           activatePolicy(p, k, target)
    PROVE  IInv'
<1> USE DEF IInv
<1> DEFINE s == <<"policy_activate", k>>
           request == [project |-> p, policy |-> target]
           response == policyView(p, target, target)
<1>1. s \in Slot /\ projects[p] # NoProject  BY SlotsExist DEF activatePolicy
<1>2. CASE reserve(s)
  <2>1. /\ policies[p][target] # NoPolicy
        /\ projects' = [projects EXCEPT ![p].active = target]
        /\ completeReservation(s, request, response,
                               IF projects[p].active = target THEN 0 ELSE 1)
        /\ UNCHANGED <<policies, tasks, calls>>
    BY <1>2 DEF activatePolicy, Replays, reserve, Found, switchActivePolicy
  <2>2. PICK effects \in {0, 1} : completeReservation(s, request, response, effects)
    BY <2>1
  <2>3. request \in AskedFor  BY DEF AskedFor, ActivateRequest
  <2>4. response \in Response
    <3>1. policies[p][target] \in PolicyHash  BY <2>1 DEF TypeOK
    <3> QED  BY <3>1 DEF policyView, Response, PolicyView
  <2> HIDE DEF request, response
  <2>5. projects[p] \in ProjectRow  BY <1>1 DEF TypeOK
  <2>6. PICK row \in ProjectRow :
            /\ row.repository = projects[p].repository /\ row.active = target
            /\ projects' = [projects EXCEPT ![p] = row]
    <3> DEFINE e == [projects[p] EXCEPT !.active = target]
    <3>1. e \in ProjectRow /\ e.repository = projects[p].repository /\ e.active = target
      BY <2>5 DEF ProjectRow
    <3>2. projects' = [projects EXCEPT ![p] = e]  BY <2>1 DEF TypeOK
    <3> QED  BY <3>1, <3>2
  <2>7. /\ projects' \in [Project -> ProjectRow \cup {NoProject}] /\ projects'[p] = row
        /\ \A x \in Project : x # p => projects'[x] = projects[x]
    BY <2>6 DEF TypeOK
  <2>8. row # NoProject  BY RowAssumption
  <2>9. \A z \in Slot : reservations[z] # Free => reservations'[z] # Free
    BY <1>1, <1>2, <2>2, <2>3, <2>4, CompletionKeeps
  <2>10. NamedOK'  BY <1>1, <2>1, <2>7, <2>8, <2>9, SlotsExist DEF NamedOK, Taken
  <2>11. ActiveOK'  BY <2>1, <2>6, <2>7 DEF ActiveOK
  <2>12. CallsOK'
    <3>1. \A c \in Call : calls[c] # Idle => calls[c].project \in Project  BY DEF TypeOK, CallRecord
    <3> QED  BY <2>1, <2>7, <2>8, <3>1 DEF CallsOK
  <2>13. TaskKeepsRepository'  BY <2>1, <2>6, <2>7 DEF TaskKeepsRepository
  <2> QED
    BY <1>1, <1>2, <2>1, <2>2, <2>3, <2>4, <2>7, <2>10, <2>11, <2>12, <2>13, CommitKeeps
    DEF TypeOK
<1>3. CASE ~reserve(s)
  <2>1. UNCHANGED vars
    BY <1>1, <1>3, ReplayChangesNothing DEF activatePolicy, Replays
  <2> QED  BY <2>1, StutterKeeps
<1> QED  BY <1>2, <1>3

\* the read that a draft is computed from,
LEMMA ContextKeeps ==
    ASSUME IInv, NEW c \in Call, NEW p \in Project, NEW k \in TaskKey, NEW x \in Content,
           getCreationContext(c, p, k, x)
    PROVE  IInv'
<1> USE DEF IInv
<1>1. /\ projects[p] # NoProject /\ projects[p].active # NoPolicy
      /\ UNCHANGED <<projects, policies, tasks, reservations, answers, audits>>
  BY DEF getCreationContext, tables, history
<1>2. /\ projects[p].repository \in Repository /\ projects[p].active \in PolicyKey
      /\ policies[p][projects[p].active] \in PolicyHash
  <2>1. projects[p].repository \in Repository /\ projects[p].active \in PolicyKey
    BY <1>1 DEF TypeOK, ProjectRow
  <2>2. policies[p][projects[p].active] # NoPolicy  BY <1>1 DEF ActiveOK
  <2> QED  BY <2>1, <2>2 DEF TypeOK
<1>3. PICK call \in CallRecord :
          /\ call.project = p /\ call.row.policy = projects[p].active
          /\ call.row.policyHash = policies[p][projects[p].active]
          /\ calls' = [calls EXCEPT ![c] = call]
  <2> DEFINE row == [content |-> x, policy |-> projects[p].active,
                     policyHash |-> policies[p][projects[p].active],
                     repository |-> projects[p].repository]
             e == [project |-> p, key |-> k, row |-> row]
  <2>1. row \in TaskRow  BY <1>2 DEF TaskRow
  <2>2. calls' = [calls EXCEPT ![c] = e]  BY <1>1 DEF getCreationContext, ActivePolicyHash
  <2>3. /\ e \in CallRecord /\ e.project = p /\ e.row.policy = projects[p].active
        /\ e.row.policyHash = policies[p][projects[p].active]
    BY <2>1 DEF CallRecord
  <2> QED  BY <2>2, <2>3
<1>4. /\ calls' \in [Call -> CallRecord \cup {Idle}] /\ calls'[c] = call
      /\ \A d \in Call : d # c => calls'[d] = calls[d]
  BY <1>3 DEF TypeOK
<1>5. TypeOK'  BY <1>1, <1>4 DEF TypeOK
<1>6. CallsOK'  BY <1>1, <1>3, <1>4 DEF CallsOK
<1> QED
  BY <1>1, <1>5, <1>6 DEF ReservedOK, NamedOK, Taken, ActiveOK, TaskKeepsRepository

\* and the transaction that stores the draft if nothing it was computed from changed.
LEMMA CreateTaskKeeps ==
    ASSUME IInv, NEW c \in Call, createTask(c)
    PROVE  IInv'
<1> USE DEF IInv
<1> DEFINE p == calls[c].project
           k == calls[c].key
           row == calls[c].row
           s == <<"task_create", k>>
           request == [project |-> p, content |-> row.content]
<1>1. /\ calls[c] # Idle /\ p \in Project /\ k \in TaskKey /\ row \in TaskRow
      /\ row.content \in Content
  BY DEF createTask, TypeOK, CallRecord, TaskRow
<1>2. s \in Slot  BY <1>1, SlotsExist
<1>3. /\ calls' \in [Call -> CallRecord \cup {Idle}]
      /\ \A d \in Call : calls'[d] # Idle => calls'[d] = calls[d]
  BY DEF createTask, TypeOK
<1>4. CASE reserve(s) /\ ~UNCHANGED <<tables, history>>
  <2>1. /\ ContextHolds(p, row)
        /\ tasks' = [tasks EXCEPT ![p][k] = row]
        /\ completeReservation(s, request, row, 1)
        /\ UNCHANGED <<projects, policies>>
    BY <1>4 DEF createTask, Replays, reserve
  <2>2. request \in AskedFor /\ row \in Response
    BY <1>1 DEF AskedFor, TaskRequest, Response
  <2> HIDE DEF request
  <2>3. projects[p] # NoProject  BY <1>1 DEF CallsOK
  <2>4. /\ tasks' \in [Project -> [TaskKey -> TaskRow \cup {NoTask}]]
        /\ tasks'[p][k] = row
        /\ \A x \in Project, y \in TaskKey : <<x, y>> # <<p, k>> => tasks'[x][y] = tasks[x][y]
    BY <1>1, <2>1 DEF TypeOK
  <2>5. /\ reservations'[s] # Free
        /\ \A z \in Slot : reservations[z] # Free => reservations'[z] # Free
    BY <1>2, <1>4, <2>1, <2>2, CompletionKeeps
  <2>6. NamedOK'
    <3>1. ASSUME NEW x \in Project, NEW y \in TaskKey, tasks'[x][y] # NoTask
          PROVE  projects[x] # NoProject /\ reservations'[<<"task_create", y>>] # Free
      <4>1. CASE x = p /\ y = k  BY <2>3, <2>5, <4>1
      <4>2. CASE ~(x = p /\ y = k)
        BY <2>4, <2>5, <3>1, <4>2, SlotsExist DEF NamedOK, Taken
      <4> QED  BY <4>1, <4>2
    <3> QED  BY <2>1, <2>5, <3>1, SlotsExist DEF NamedOK, Taken
  <2>7. ActiveOK'  BY <2>1 DEF ActiveOK
  <2>8. CallsOK'  BY <1>3, <2>1 DEF CallsOK
  <2>9. TaskKeepsRepository'
    BY <2>1, <2>4 DEF TaskKeepsRepository, ContextHolds
  <2> QED
    BY <1>2, <1>3, <1>4, <2>1, <2>2, <2>4, <2>6, <2>7, <2>8, <2>9, CommitKeeps DEF TypeOK
<1>5. CASE UNCHANGED <<projects, policies, tasks, reservations, answers, audits>>
  <2>1. TypeOK'  BY <1>3, <1>5 DEF TypeOK
  <2>2. CallsOK'  BY <1>3, <1>5 DEF CallsOK
  <2> QED  BY <1>5, <2>1, <2>2 DEF ReservedOK, NamedOK, Taken, ActiveOK, TaskKeepsRepository
<1>6. CASE Replays(s, request) /\ Replay(s, reservations[s].response)
  <2>1. answers' = answers
    <3>1. answers \in [Slot -> SUBSET Response]  BY DEF TypeOK
    <3>2. answers[s] = {reservations[s].response}  BY <1>2, <1>6 DEF ReservedOK, Replays
    <3> QED  BY <3>1, <3>2, <1>6 DEF Replay, Answer
  <2> QED  BY <1>5, <1>6, <2>1 DEF Replay, tables
<1> QED  BY <1>4, <1>5, <1>6 DEF createTask, tables, history

\* Every step keeps the invariant,
LEMMA NextKeeps == IInv /\ [Next]_vars => IInv'
BY CreateProjectKeeps, UpdateProjectKeeps, CreatePolicyKeeps, ActivatePolicyKeeps, ContextKeeps,
   CreateTaskKeeps, StutterKeeps DEF Next

\* A step of TaskIntents that takes a slot, or replays what is stored there,
\* and leaves the projects, policies and drafts alone.
LEMMA SlotStepKeeps ==
    ASSUME IInv, UNCHANGED <<projects, policies, tasks, calls>>,
           NEW s \in Slot, NEW request \in AskedFor, NEW response \in Response,
           \/ reserve(s) /\ completeReservation(s, request, response, 1)
           \/ Replays(s, request) /\ Replay(s, reservations[s].response)
    PROVE  /\ IInv'
           /\ \A z \in Slot : reservations[z] # Free => reservations'[z] # Free
           /\ reservations'[s] # Free
<1>1. CASE reserve(s) /\ completeReservation(s, request, response, 1)
  <2>1. /\ reservations'[s] # Free
        /\ \A z \in Slot : reservations[z] # Free => reservations'[z] # Free
    BY <1>1, CompletionKeeps
  <2>2. NamedOK'  BY <2>1, SlotsExist DEF IInv, NamedOK, Taken
  <2>3. ActiveOK' /\ CallsOK' /\ TaskKeepsRepository'
    BY DEF IInv, ActiveOK, CallsOK, TaskKeepsRepository
  <2>4. IInv'  BY <1>1, <2>2, <2>3, CommitKeeps DEF IInv, TypeOK
  <2> QED  BY <2>1, <2>4
<1>2. CASE Replays(s, request) /\ Replay(s, reservations[s].response)
  <2>1. reservations[s] # Free /\ UNCHANGED vars  BY <1>2, ReplayChangesNothing DEF Replays
  <2> QED  BY <2>1, StutterKeeps DEF vars, tables
<1> QED  BY <1>1, <1>2

\* With it, what TaskIntents adds.
ChainIInv == IInv /\ IntentTypeOK

\* The new variables start empty.
LEMMA ChainInitHolds == IntentInit => ChainIInv
<1> SUFFICES ASSUME IntentInit PROVE ChainIInv  OBVIOUS
<1>1. IInv  BY InitHolds DEF IntentInit
<1>2. IntentTypeOK  BY <1>1 DEF IntentInit, IntentTypeOK, IInv
<1> QED  BY <1>1, <1>2 DEF ChainIInv

\* What a row says stays true while drafts stay and slots are not given back.
LEMMA RowsKeep ==
    ASSUME ChainIInv, IInv', UNCHANGED chain,
           \A z \in Slot : reservations[z] # Free => reservations'[z] # Free,
           \A p \in Project, k \in TaskKey : tasks[p][k] # NoTask => tasks'[p][k] # NoTask
    PROVE  ChainIInv'
<1>1. ASSUME NEW i \in IntentKey, chain_transactions'[i] # NoTransaction
      PROVE  /\ reservations'[<<"chain_intent_create", i>>] # Free
             /\ tasks'[chain_transactions'[i].project][chain_transactions'[i].task] # NoTask
  <2>1. /\ reservations[<<"chain_intent_create", i>>] # Free
        /\ tasks[chain_transactions[i].project][chain_transactions[i].task] # NoTask
        /\ chain_transactions[i].project \in Project /\ chain_transactions[i].task \in TaskKey
    BY <1>1 DEF ChainIInv, IntentTypeOK, ChainRow, chain
  <2> QED  BY <2>1, ChainSlotsExist DEF chain
<1>2. \A p \in Project, k \in TaskKey, i \in IntentKey :
          <<p, k, i>> \in admitted' => tasks'[p][k] # NoTask
  BY DEF ChainIInv, IntentTypeOK, chain
<1>3. IntentTypeOK'  BY <1>1, <1>2 DEF ChainIInv, IInv, IntentTypeOK, chain
<1> QED  BY <1>3 DEF ChainIInv

\* Only createTask writes the table of tasks.
LEMMA OnlyCreateTaskDrafts ==
    ASSUME Next, tasks' # tasks
    PROVE  \E c \in Call : createTask(c)
<1>1. ASSUME NEW q \in Project, NEW r \in Repository, createProject(q, r)
      PROVE  FALSE
  BY <1>1 DEF createProject, Replay, tables
<1>2. ASSUME NEW q \in Project, NEW j \in UpdateKey, NEW patch \in Patch,
             updateProject(q, j, patch)
      PROVE  FALSE
  BY <1>2 DEF updateProject, Replay, tables
<1>3. ASSUME NEW q \in Project, NEW j \in PolicyKey, NEW h \in PolicyHash,
             NEW activate \in BOOLEAN, createPolicyVersion(q, j, h, activate)
      PROVE  FALSE
  BY <1>3 DEF createPolicyVersion, Replay, tables
<1>4. ASSUME NEW q \in Project, NEW j \in ActivateKey, NEW target \in PolicyKey,
             activatePolicy(q, j, target)
      PROVE  FALSE
  BY <1>4 DEF activatePolicy, Replay, tables
<1>5. ASSUME NEW c \in Call, NEW q \in Project, NEW j \in TaskKey, NEW x \in Content,
             getCreationContext(c, q, j, x)
      PROVE  FALSE
  BY <1>5 DEF getCreationContext, tables
<1> QED  BY <1>1, <1>2, <1>3, <1>4, <1>5 DEF Next

\* The steps of ProjectPolicies never free a slot or drop a draft.
LEMMA NextOnlyAdds ==
    ASSUME IInv, Next
    PROVE  /\ \A z \in Slot : reservations[z] # Free => reservations'[z] # Free
           /\ \A p \in Project, k \in TaskKey : tasks[p][k] # NoTask => tasks'[p][k] # NoTask
<1>1. ASSUME NEW z \in Slot, reservations[z] # Free
      PROVE  reservations'[z] # Free
  <2> DEFINE Completes == \E s, request, response, effects :
                             reserve(s) /\ completeReservation(s, request, response, effects)
  <2>1. reservations' = reservations \/ Completes
    <3>1. ASSUME NEW p \in Project, NEW r \in Repository, createProject(p, r)
          PROVE  reservations' = reservations \/ Completes
      BY <3>1 DEF createProject, Replay, tables
    <3>2. ASSUME NEW p \in Project, NEW k \in UpdateKey, NEW patch \in Patch,
                 updateProject(p, k, patch)
          PROVE  reservations' = reservations \/ Completes
      BY <3>2 DEF updateProject, Replay, tables
    <3>3. ASSUME NEW p \in Project, NEW k \in PolicyKey, NEW h \in PolicyHash,
                 NEW activate \in BOOLEAN, createPolicyVersion(p, k, h, activate)
          PROVE  reservations' = reservations \/ Completes
      BY <3>3 DEF createPolicyVersion, Replay, tables
    <3>4. ASSUME NEW p \in Project, NEW k \in ActivateKey, NEW target \in PolicyKey,
                 activatePolicy(p, k, target)
          PROVE  reservations' = reservations \/ Completes
      BY <3>4 DEF activatePolicy, Replay, tables
    <3>5. ASSUME NEW c \in Call, NEW p \in Project, NEW k \in TaskKey, NEW x \in Content,
                 getCreationContext(c, p, k, x)
          PROVE  reservations' = reservations
      BY <3>5 DEF getCreationContext, tables
    <3>6. ASSUME NEW c \in Call, createTask(c)
          PROVE  reservations' = reservations \/ Completes
      BY <3>6 DEF createTask, Replay, tables
    <3> HIDE DEF Completes
    <3> QED  BY <3>1, <3>2, <3>3, <3>4, <3>5, <3>6 DEF Next
  <2>2. reservations \in [Slot -> Reservation \cup {Free}]  BY DEF IInv, TypeOK
  <2> QED  BY <1>1, <2>1, <2>2 DEF reserve, completeReservation
<1>2. ASSUME NEW p \in Project, NEW k \in TaskKey, tasks[p][k] # NoTask
      PROVE  tasks'[p][k] # NoTask
  <2>1. CASE tasks' = tasks  BY <1>2, <2>1
  <2>2. CASE tasks' # tasks
    <3>1. PICK c \in Call : createTask(c)  BY <2>2, OnlyCreateTaskDrafts
    <3>2. /\ reserve(<<"task_create", calls[c].key>>)
          /\ tasks' = [tasks EXCEPT ![calls[c].project][calls[c].key] = calls[c].row]
      BY <2>2, <3>1 DEF createTask, Replay, tables
    <3>3. calls[c].key # k  BY <1>2, <3>2 DEF IInv, NamedOK, Taken, reserve
    <3> QED  BY <1>2, <3>2, <3>3 DEF IInv, TypeOK
  <2> QED  BY <2>1, <2>2
<1> QED  BY <1>1, <1>2
\* A row put under a key i whose slot is taken, for a task that was drafted.
LEMMA RowWritten ==
    ASSUME ChainIInv, IInv', UNCHANGED <<tasks, admitted>>,
           offchain' \in [Project -> [TaskKey -> {"draft", "awaiting_chain"}]],
           chain_transactions' \in [IntentKey -> ChainRow \cup {NoTransaction}],
           \A z \in Slot : reservations[z] # Free => reservations'[z] # Free,
           \A i \in IntentKey :
               \/ chain_transactions'[i] = chain_transactions[i]
               \/ /\ reservations'[<<"chain_intent_create", i>>] # Free
                  /\ tasks[chain_transactions'[i].project][chain_transactions'[i].task] # NoTask
    PROVE  ChainIInv'
<1>1. ASSUME NEW i \in IntentKey, chain_transactions'[i] # NoTransaction
      PROVE  /\ reservations'[<<"chain_intent_create", i>>] # Free
             /\ tasks'[chain_transactions'[i].project][chain_transactions'[i].task] # NoTask
  BY <1>1, ChainSlotsExist DEF ChainIInv, IntentTypeOK
<1>2. IntentTypeOK'  BY <1>1 DEF ChainIInv, IInv, IntentTypeOK
<1> QED  BY <1>2 DEF ChainIInv

\* An intent that is stored, or replayed, keeps the invariant;
LEMMA CreateIntentKeeps ==
    ASSUME ChainIInv, NEW p \in Project, NEW k \in TaskKey, NEW i \in IntentKey,
           createChainIntent(p, k, i)
    PROVE  ChainIInv'
<1> DEFINE s == <<"chain_intent_create", i>>
           request == [project |-> p, task |-> k]
           response == chainView(i, "wallet_requested")
           row == [project |-> p, task |-> k, status |-> "wallet_requested"]
<1>1. s \in Slot /\ request \in AskedFor /\ response \in Response /\ row \in ChainRow
  BY ChainSlotsExist DEF AskedFor, IntentRequest, chainView, Response, ChainView, ChainRow
<1>2. tasks[p][k] # NoTask /\ UNCHANGED <<projects, policies, tasks, calls, admitted>>
  BY DEF createChainIntent, ChainIInv, IntentTypeOK
<1>3. CASE /\ reserve(s) /\ completeReservation(s, request, response, 1)
           /\ chain_transactions' = [chain_transactions EXCEPT ![i] = row]
           /\ offchain' = [offchain EXCEPT ![p][k] = "awaiting_chain"]
  <2> HIDE DEF request, response, row
  <2>1. /\ IInv' /\ reservations'[s] # Free
        /\ \A z \in Slot : reservations[z] # Free => reservations'[z] # Free
    BY <1>1, <1>2, <1>3, SlotStepKeeps DEF ChainIInv
  <2>2. /\ chain_transactions' \in [IntentKey -> ChainRow \cup {NoTransaction}]
        /\ chain_transactions'[i] = row
        /\ \A j \in IntentKey : j # i => chain_transactions'[j] = chain_transactions[j]
    BY <1>1, <1>3 DEF ChainIInv, IntentTypeOK
  <2>3. offchain' \in [Project -> [TaskKey -> {"draft", "awaiting_chain"}]]
    BY <1>3 DEF ChainIInv, IntentTypeOK
  <2>4. row.project = p /\ row.task = k  BY DEF row
  <2>5. \A j \in IntentKey :
            \/ chain_transactions'[j] = chain_transactions[j]
            \/ /\ reservations'[<<"chain_intent_create", j>>] # Free
               /\ tasks[chain_transactions'[j].project][chain_transactions'[j].task] # NoTask
    BY <1>2, <2>1, <2>2, <2>4
  <2> QED  BY <1>2, <2>1, <2>2, <2>3, <2>5, RowWritten
<1>4. CASE /\ Replays(s, request) /\ Replay(s, reservations[s].response)
           /\ UNCHANGED <<offchain, chain_transactions>>
  <2> HIDE DEF request
  <2>1. IInv' /\ \A z \in Slot : reservations[z] # Free => reservations'[z] # Free
    BY <1>1, <1>2, <1>4, SlotStepKeeps DEF ChainIInv
  <2> QED  BY <1>2, <1>4, <2>1, RowsKeep DEF chain
<1> QED  BY <1>3, <1>4 DEF createChainIntent, TakesKey

\* so does what the wallet did with it,
LEMMA OutcomeKeeps ==
    ASSUME ChainIInv, NEW i \in IntentKey, NEW o \in OutcomeKey,
           NEW status \in {"submitted", "rejected_by_user"}, recordWalletOutcome(i, o, status)
    PROVE  ChainIInv'
<1> DEFINE s == <<Operation(status), o>>
           request == [transaction |-> i]
           response == chainView(i, status)
           row == chain_transactions[i]
<1>1. s \in Slot /\ request \in AskedFor /\ response \in Response
  BY ChainSlotsExist DEF AskedFor, OutcomeRequest, chainView, Response, ChainView
<1>2. /\ row \in ChainRow /\ tasks[row.project][row.task] # NoTask
      /\ UNCHANGED <<projects, policies, tasks, calls, admitted>>
  BY DEF recordWalletOutcome, ChainIInv, IntentTypeOK
<1>3. CASE /\ reserve(s) /\ completeReservation(s, request, response, 1)
           /\ chain_transactions' = [chain_transactions EXCEPT ![i].status = status]
           /\ offchain' = IF status = "rejected_by_user"
                            THEN [offchain EXCEPT ![row.project][row.task] = "draft"]
                            ELSE offchain
  <2> HIDE DEF request, response, s
  <2>1. IInv' /\ \A z \in Slot : reservations[z] # Free => reservations'[z] # Free
    BY <1>1, <1>2, <1>3, SlotStepKeeps DEF ChainIInv
  <2>2. PICK new \in ChainRow :
            /\ new.project = row.project /\ new.task = row.task
            /\ new = [row EXCEPT !.status = status]
    <3> DEFINE e == [row EXCEPT !.status = status]
    <3>1. e \in ChainRow /\ e.project = row.project /\ e.task = row.task  BY <1>2 DEF ChainRow
    <3> QED  BY <3>1
  <2>3. /\ chain_transactions' \in [IntentKey -> ChainRow \cup {NoTransaction}]
        /\ chain_transactions'[i] = new
        /\ \A j \in IntentKey : j # i => chain_transactions'[j] = chain_transactions[j]
    BY <1>3, <2>2 DEF ChainIInv, IntentTypeOK
  <2>4. offchain' \in [Project -> [TaskKey -> {"draft", "awaiting_chain"}]]
    BY <1>2, <1>3 DEF ChainIInv, IntentTypeOK, ChainRow
  <2>5. reservations'[<<"chain_intent_create", i>>] # Free
    BY <2>1, ChainSlotsExist DEF recordWalletOutcome, ChainIInv, IntentTypeOK
  <2>6. \A j \in IntentKey :
            \/ chain_transactions'[j] = chain_transactions[j]
            \/ /\ reservations'[<<"chain_intent_create", j>>] # Free
               /\ tasks[chain_transactions'[j].project][chain_transactions'[j].task] # NoTask
    BY <1>2, <2>2, <2>3, <2>5
  <2> QED  BY <1>2, <2>1, <2>3, <2>4, <2>6, RowWritten
<1>4. CASE /\ Replays(s, request) /\ Replay(s, reservations[s].response)
           /\ UNCHANGED <<offchain, chain_transactions>>
  <2> HIDE DEF request, s
  <2>1. IInv' /\ \A z \in Slot : reservations[z] # Free => reservations'[z] # Free
    BY <1>1, <1>2, <1>4, SlotStepKeeps DEF ChainIInv
  <2> QED  BY <1>2, <1>4, <2>1, RowsKeep DEF chain
<1> QED  BY <1>3, <1>4 DEF recordWalletOutcome, replayChain

\* and its replacement, which takes a key of the intents.
LEMMA ReplacementKeeps ==
    ASSUME ChainIInv, NEW i \in IntentKey, NEW j \in IntentKey, recordReplacement(i, j)
    PROVE  ChainIInv'
<1> DEFINE s == <<"chain_intent_create", j>>
           request == [transaction |-> i]
           response == chainView(j, "submitted")
           row == chain_transactions[i]
<1>1. s \in Slot /\ request \in AskedFor /\ response \in Response
  BY ChainSlotsExist DEF AskedFor, OutcomeRequest, chainView, Response, ChainView
<1>2. /\ row \in ChainRow /\ tasks[row.project][row.task] # NoTask
      /\ reservations[<<"chain_intent_create", i>>] # Free
      /\ UNCHANGED <<projects, policies, tasks, calls, offchain, admitted>>
  BY DEF recordReplacement, ChainIInv, IntentTypeOK
<1>3. CASE /\ reserve(s) /\ completeReservation(s, request, response, 1)
           /\ chain_transactions' = [chain_transactions EXCEPT ![i].status = "replaced",
                                                               ![j] = row]
  <2> HIDE DEF request, response
  <2>1. /\ IInv' /\ reservations'[s] # Free
        /\ \A z \in Slot : reservations[z] # Free => reservations'[z] # Free
    BY <1>1, <1>2, <1>3, SlotStepKeeps DEF ChainIInv
  <2>2. PICK old \in ChainRow :
            /\ old.project = row.project /\ old.task = row.task
            /\ old = [row EXCEPT !.status = "replaced"]
    <3> DEFINE e == [row EXCEPT !.status = "replaced"]
    <3>1. e \in ChainRow /\ e.project = row.project /\ e.task = row.task  BY <1>2 DEF ChainRow
    <3> QED  BY <3>1
  <2>3. i # j  BY <1>2, <1>3 DEF reserve
  <2>4. /\ chain_transactions' \in [IntentKey -> ChainRow \cup {NoTransaction}]
        /\ chain_transactions'[i] = old /\ chain_transactions'[j] = row
        /\ \A x \in IntentKey : x \notin {i, j} => chain_transactions'[x] = chain_transactions[x]
    BY <1>2, <1>3, <2>2, <2>3 DEF ChainIInv, IntentTypeOK
  <2>5. reservations'[<<"chain_intent_create", i>>] # Free  BY <1>2, <2>1, ChainSlotsExist
  <2>6. \A x \in IntentKey :
            \/ chain_transactions'[x] = chain_transactions[x]
            \/ /\ reservations'[<<"chain_intent_create", x>>] # Free
               /\ tasks[chain_transactions'[x].project][chain_transactions'[x].task] # NoTask
    <3>1. chain_transactions'[j].project = row.project /\ chain_transactions'[j].task = row.task
      BY <2>4
    <3>2. chain_transactions'[i].project = row.project /\ chain_transactions'[i].task = row.task
      BY <2>2, <2>4
    <3> HIDE DEF row
    <3> SUFFICES ASSUME NEW x \in IntentKey, chain_transactions'[x] # chain_transactions[x]
                 PROVE  /\ reservations'[<<"chain_intent_create", x>>] # Free
                        /\ tasks[chain_transactions'[x].project][chain_transactions'[x].task]
                               # NoTask
      OBVIOUS
    <3>3. CASE x = j  BY <1>2, <2>1, <3>1, <3>3
    <3>4. CASE x = i  BY <1>2, <2>5, <3>2, <3>4
    <3> QED  BY <2>4, <3>3, <3>4
  <2>7. offchain' \in [Project -> [TaskKey -> {"draft", "awaiting_chain"}]]
    BY <1>2 DEF ChainIInv, IntentTypeOK
  <2> QED  BY <1>2, <2>1, <2>4, <2>6, <2>7, RowWritten
<1>4. CASE /\ Replays(s, request) /\ Replay(s, reservations[s].response)
           /\ UNCHANGED chain_transactions
  <2> HIDE DEF request
  <2>1. IInv' /\ \A z \in Slot : reservations[z] # Free => reservations'[z] # Free
    BY <1>1, <1>2, <1>4, SlotStepKeeps DEF ChainIInv
  <2> QED  BY <1>2, <1>4, <2>1, RowsKeep DEF chain
<1> QED  BY <1>3, <1>4 DEF recordReplacement, replayChain, replayReplacement

\* Every step keeps the invariant,
LEMMA IntentNextKeeps == ChainIInv /\ [IntentNext]_allVars => ChainIInv'
<1> SUFFICES ASSUME ChainIInv, [IntentNext]_allVars PROVE ChainIInv'  OBVIOUS
<1>1. CASE Next /\ UNCHANGED chain
  BY <1>1, NextKeeps, NextOnlyAdds, RowsKeep DEF ChainIInv
<1>2. ASSUME NEW p \in Project, NEW k \in TaskKey, NEW i \in IntentKey, admit(p, k, i)
      PROVE  ChainIInv'
  <2>1. tasks[p][k] # NoTask /\ admitted' = admitted \cup {<<p, k, i>>}
        /\ UNCHANGED <<vars, offchain, chain_transactions>>
    BY <1>2 DEF admit
  <2>2. IInv'  BY <2>1, StutterKeeps DEF ChainIInv
  <2>3. UNCHANGED <<tasks, reservations>>  BY <2>1 DEF vars, tables
  <2>4. \A x \in Project, y \in TaskKey, z \in IntentKey :
            <<x, y, z>> \in admitted' => tasks'[x][y] # NoTask
    BY <2>1, <2>3 DEF ChainIInv, IntentTypeOK
  <2>5. IntentTypeOK'  BY <2>1, <2>2, <2>3, <2>4 DEF ChainIInv, IInv, IntentTypeOK
  <2> QED  BY <2>2, <2>5 DEF ChainIInv
<1>3. CASE UNCHANGED allVars
  <2>1. IInv'  BY <1>3, StutterKeeps DEF ChainIInv, allVars
  <2> QED  BY <1>3, <2>1, RowsKeep DEF allVars, vars, tables
<1> QED
  BY <1>1, <1>2, <1>3, CreateIntentKeeps, OutcomeKeeps, ReplacementKeeps DEF IntentNext

\* so it holds in every reachable state.
LEMMA Inductive == IntentSpec => []ChainIInv
BY ChainInitHolds, IntentNextKeeps, PTL DEF IntentSpec
--------------------------------------------------------------------------------
\* Every row, answer and request in flight has its type.
THEOREM TypeCorrect == IntentSpec => []IntentTypeOK
<1>1. ChainIInv => IntentTypeOK  BY DEF ChainIInv
<1> QED  BY <1>1, Inductive, PTL

\* A request takes effect at most once, and its answers agree, however often it
\* arrives and whatever happens in between (reserveIdempotencyKey and
\* completeReservation of project-policy-repository.ts).
THEOREM RetriesActOnceHolds == IntentSpec => []RetriesActOnce
<1>1. IInv => RetriesActOnce
  <2> SUFFICES ASSUME IInv, NEW s \in Slot
               PROVE  audits[s] <= 1 /\ Cardinality(answers[s]) <= 1
    BY DEF RetriesActOnce
  <2>1. CASE reservations[s] = Free
    <3>1. audits[s] = 0 /\ answers[s] = {}  BY <2>1 DEF IInv, ReservedOK
    <3>2. Cardinality(answers[s]) = 0  BY <3>1, FS_EmptySet
    <3> QED  BY <3>1, <3>2
  <2>2. CASE reservations[s] # Free
    <3>1. audits[s] \in {0, 1} /\ answers[s] = {reservations[s].response}
      BY <2>2 DEF IInv, ReservedOK
    <3>2. Cardinality(answers[s]) = 1  BY <3>1, FS_Singleton
    <3> QED  BY <3>1, <3>2
  <2> QED  BY <2>1, <2>2
<1>2. ChainIInv => IInv  BY DEF ChainIInv
<1> QED  BY <1>1, <1>2, Inductive, PTL

\* The repository a task's hash commits to stays its project's (updateProject
\* refuses to move it once there is a task).
THEOREM TaskKeepsRepositoryHolds == IntentSpec => []TaskKeepsRepository
<1>1. ChainIInv => TaskKeepsRepository  BY DEF ChainIInv, IInv
<1> QED  BY <1>1, Inductive, PTL

\* A draft names the policy that is active, and its content, when it is stored:
\* what createTask compares under its lock is enough, as policies never change.
THEOREM DraftsAreCurrentHolds == IntentSpec => DraftsAreCurrent
<1> DEFINE Current(p, k) == /\ tasks[p][k] = NoTask
                            /\ projects[p].status = "active"
                            /\ tasks'[p][k].policy = projects[p].active
                            /\ tasks'[p][k].policyHash = policies[p][projects[p].active]
           Step == \A p \in Project, k \in TaskKey : tasks'[p][k] # tasks[p][k] => Current(p, k)
<1>1. ChainIInv /\ [IntentNext]_allVars => Step
  <2> SUFFICES ASSUME IInv, [IntentNext]_allVars, NEW p \in Project, NEW k \in TaskKey,
                      tasks'[p][k] # tasks[p][k]
               PROVE  Current(p, k)
    BY DEF ChainIInv
  <2>1. PICK c \in Call : createTask(c)
    <3>1. Next
      BY DEF IntentNext, admit, createChainIntent, recordWalletOutcome, recordReplacement,
             allVars, vars, tables
    <3> QED  BY <3>1, OnlyCreateTaskDrafts
  <2> DEFINE row == calls[c].row
  <2>2. /\ reserve(<<"task_create", calls[c].key>>)
        /\ ContextHolds(calls[c].project, row)
        /\ tasks' = [tasks EXCEPT ![calls[c].project][calls[c].key] = row]
        /\ calls[c] # Idle
    BY <2>1 DEF createTask, Replay, tables
  <2>3. calls[c].project = p /\ calls[c].key = k /\ tasks'[p][k] = row
    BY <2>2 DEF IInv, TypeOK
  <2>4. policies[p][row.policy] = row.policyHash  BY <2>2, <2>3 DEF IInv, CallsOK
  <2>5. tasks[p][k] = NoTask  BY <2>2, <2>3 DEF IInv, NamedOK, Taken, reserve
  <2> QED  BY <2>2, <2>3, <2>4, <2>5 DEF ContextHolds, Accepts
<1>2. ChainIInv /\ [IntentNext]_allVars => [Step]_vars  BY <1>1
<1> QED  BY <1>2, Inductive, PTL DEF IntentSpec, DraftsAreCurrent
================================================================================
