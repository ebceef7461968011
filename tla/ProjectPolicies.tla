----------------------------- MODULE ProjectPolicies ----------------------------
(***************************************************************************)
(* Projects, their policies, the drafts of tasks, and the idempotency keys *)
(* under which an owner asks for them (packages/db/src/project-policy-     *)
(* repository.ts, and createTask of task-chain-repository.ts).             *)
(*                                                                         *)
(* A request may arrive any number of times: the browser tries again when  *)
(* an answer is lost, and a copy may overtake it.  Each arrival is one     *)
(* transaction that locks the project, hence one step, except createTask,  *)
(* whose handler first reads the project without a lock and computes the   *)
(* hash of the task from what it read.  A request that is refused changes  *)
(* nothing: only for createTask is it a step.                              *)
(*                                                                         *)
(* Keys are those of one owner.  What a request makes is named by its key  *)
(* (deriveOpaquePublicId).  A key expires after a day, but nothing looks   *)
(* at that.                                                                *)
(***************************************************************************)
EXTENDS Integers, FiniteSets

CONSTANTS
    Project, UpdateKey, PolicyKey, ActivateKey, TaskKey,    \* idempotency keys
    IntentKey, OutcomeKey,      \* and those under which TaskIntents sends drafts to the chain
    Repository,     \* repository URLs
    PolicyHash,     \* contents of policies
    Content,        \* what the owner asks of a task
    Patch,          \* what an update may ask for
    Call,           \* requests for a task that may be in flight together
    Keep,           \* in a patch: the field is left as it is
    NoProject, NoPolicy, NoTask, NoRequest

ASSUME KeepAssumption == Keep \notin Repository /\ Keep \notin {"active", "archived"}

ASSUME PatchAssumption ==
    Patch \subseteq [repository : Repository \cup {Keep}, status : {"active", "archived", Keep}]

ASSUME NullAssumption == NoPolicy \notin PolicyKey /\ NoPolicy \notin PolicyHash

VARIABLES
    projects,       \* by key
    policies,       \* by project and key: the hash, or NoPolicy
    tasks,          \* by project and key: the draft
    reservations,   \* api_idempotency_keys, by operation and key
    calls,          \* what each request for a task has read
    answers,        \* history: the successful answers given under each key
    audits          \* history: how often a request under each key took effect

tables  == <<projects, policies, tasks, reservations>>
history == <<answers, audits>>
vars == <<tables, calls, history>>

Status == {"active", "archived"}

ProjectRow == [repository : Repository, status : Status, active : PolicyKey \cup {NoPolicy}]

\* The draft's hash is that of content, policyHash and repository together.
TaskRow == [content : Content, policy : PolicyKey, policyHash : PolicyHash,
            repository : Repository]

\* A slot is an operation and a key; one belongs to one reservation.
Slot == ({"project_create"} \X Project) \cup ({"project_update"} \X UpdateKey)
        \cup ({"policy_create"} \X PolicyKey) \cup ({"policy_activate"} \X ActivateKey)
        \cup ({"task_create"} \X TaskKey)
        \cup ({"chain_intent_create"} \X IntentKey)
        \cup ({"chain_submitted", "chain_rejected_by_user"} \X OutcomeKey)

\* What the request hash is taken of, without the key.
CreateRequest   == [project : Project, repository : Repository]
UpdateRequest   == [project : Project, patch : Patch]
PolicyRequest   == [project : Project, policyHash : PolicyHash, activate : BOOLEAN]
ActivateRequest == [project : Project, policy : PolicyKey]
TaskRequest     == [project : Project, content : Content]
IntentRequest   == [project : Project, task : TaskKey]
OutcomeRequest  == [transaction : IntentKey]
AskedFor == CreateRequest \cup UpdateRequest \cup PolicyRequest \cup ActivateRequest
            \cup TaskRequest \cup IntentRequest \cup OutcomeRequest

ASSUME RowAssumption == NoProject \notin ProjectRow /\ NoRequest \notin AskedFor

ProjectView == [repository : Repository, status : Status, activeHash : PolicyHash \cup {NoPolicy}]
PolicyView  == [policyHash : PolicyHash, isActive : BOOLEAN]
ChainView   == [transaction : IntentKey, txStatus : {"wallet_requested", "submitted",
                                                     "rejected_by_user"}]
Response    == ProjectView \cup PolicyView \cup TaskRow \cup ChainView

Free == [request |-> NoRequest, response |-> NoRequest]
Reservation == [request : AskedFor, response : Response]

Idle == [project |-> NoProject]
CallRecord == [project : Project, key : TaskKey, row : TaskRow]

Init ==
    /\ projects = [p \in Project |-> NoProject]
    /\ policies = [p \in Project |-> [k \in PolicyKey |-> NoPolicy]]
    /\ tasks = [p \in Project |-> [k \in TaskKey |-> NoTask]]
    /\ reservations = [s \in Slot |-> Free]
    /\ calls = [c \in Call |-> Idle]
    /\ answers = [s \in Slot |-> {}]
    /\ audits = [s \in Slot |-> 0]
--------------------------------------------------------------------------------
(* Reservations.                                                            *)

reserve(s) == reservations[s] = Free

Answer(s, response) == answers' = [answers EXCEPT ![s] = @ \cup {response}]

\* The transaction commits its effect (or finds nothing to do: effects = 0)
\* together with the answer by which the key is replayed from then on.
completeReservation(s, request, response, effects) ==
    /\ reservations' = [reservations EXCEPT ![s] = [request |-> request, response |-> response]]
    /\ Answer(s, response)
    /\ audits' = [audits EXCEPT ![s] = @ + effects]

\* The hash of the project's active policy.
ActivePolicyHash(p, active) == IF active = NoPolicy THEN NoPolicy ELSE policies[p][active]

projectView(p, row) ==
    [repository |-> row.repository, status |-> row.status,
     activeHash |-> ActivePolicyHash(p, row.active)]

policyView(p, k, active) == [policyHash |-> policies[p][k], isActive |-> k = active]

\* Mutant: a replay shows the project as it is.
MreplayProject(s, p) == projectView(p, projects[p])

replayProject(s, p) == reservations[s].response

\* The same key with the same content: the stored answer.  With other content
\* it is DB_IDEMPOTENCY_CONFLICT, no step.
Replays(s, request) == reservations[s] # Free /\ reservations[s].request = request

Replay(s, response) ==
    /\ Answer(s, response)
    /\ UNCHANGED <<tables, audits>>
--------------------------------------------------------------------------------
(* Projects and policies.                                                   *)

createProject(p, r) ==
    LET s       == <<"project_create", p>>
        request == [project |-> p, repository |-> r]
        row     == [repository |-> r, status |-> "active", active |-> NoPolicy]
    IN  /\ \/ /\ reserve(s)
              /\ projects' = [projects EXCEPT ![p] = row]
              /\ completeReservation(s, request, projectView(p, row), 1)
              /\ UNCHANGED <<policies, tasks>>
           \/ Replays(s, request) /\ Replay(s, replayProject(s, p))
        /\ UNCHANGED calls

Patched(old, new) == IF new = Keep THEN old ELSE new

RepositoryFree(p, patch) ==
    patch.repository \in {Keep, projects[p].repository} \/ \A k \in TaskKey : tasks[p][k] = NoTask

updateProject(p, k, patch) ==
    LET s       == <<"project_update", k>>
        request == [project |-> p, patch |-> patch]
        row     == [projects[p] EXCEPT !.repository = Patched(@, patch.repository),
                                       !.status = Patched(@, patch.status)]
    IN  /\ projects[p] # NoProject
        /\ \/ /\ reserve(s)
              /\ RepositoryFree(p, patch)
              /\ projects' = [projects EXCEPT ![p] = row]
              /\ completeReservation(s, request, projectView(p, row), 1)
              /\ UNCHANGED <<policies, tasks>>
           \/ Replays(s, request) /\ Replay(s, replayProject(s, p))
        /\ UNCHANGED calls

Accepts(p) == projects[p].status = "active"

\* policies_project_hash_unique: content that another version has is refused.
NewHash(p, h) == \A k \in PolicyKey : policies[p][k] # h

switchActivePolicy(p, k) == projects' = [projects EXCEPT ![p].active = k]

createPolicyVersion(p, k, h, activate) ==
    LET s       == <<"policy_create", k>>
        request == [project |-> p, policyHash |-> h, activate |-> activate]
    IN  /\ projects[p] # NoProject
        /\ \/ /\ reserve(s)
              /\ Accepts(p)
              /\ NewHash(p, h)
              /\ policies' = [policies EXCEPT ![p][k] = h]
              /\ IF activate THEN switchActivePolicy(p, k) ELSE UNCHANGED projects
              /\ completeReservation(s, request, [policyHash |-> h, isActive |-> activate], 1)
              /\ UNCHANGED tasks
           \/ Replays(s, request) /\ Replay(s, reservations[s].response)
        /\ UNCHANGED calls

\* Mutant: a policy that was never stored is found.
MFound(p, target) == TRUE

Found(p, target) == policies[p][target] # NoPolicy

activatePolicy(p, k, target) ==
    LET s       == <<"policy_activate", k>>
        request == [project |-> p, policy |-> target]
    IN  /\ projects[p] # NoProject
        /\ \/ /\ reserve(s)
              /\ Accepts(p)
              /\ Found(p, target)
              /\ switchActivePolicy(p, target)
              /\ completeReservation(s, request, policyView(p, target, target),
                                     IF projects[p].active = target THEN 0 ELSE 1)
              /\ UNCHANGED <<policies, tasks>>
           \/ Replays(s, request) /\ Replay(s, reservations[s].response)
        /\ UNCHANGED calls
--------------------------------------------------------------------------------
(* Drafts of tasks.                                                         *)

\* The handler reads the active policy and the repository, and hashes them with
\* what the owner asks for.
getCreationContext(c, p, k, x) ==
    /\ calls[c] = Idle
    /\ projects[p] # NoProject
    /\ projects[p].active # NoPolicy
    /\ calls' = [calls EXCEPT ![c] =
           [project |-> p, key |-> k,
            row |-> [content |-> x, policy |-> projects[p].active,
                     policyHash |-> ActivePolicyHash(p, projects[p].active),
                     repository |-> projects[p].repository]]]
    /\ UNCHANGED <<tables, history>>

\* Mutants: part of what was read before the lock is not compared with the row
\* that is locked.
MRepositoryHolds(p, row) == Accepts(p) /\ projects[p].active = row.policy
MPolicyHolds(p, row) == Accepts(p) /\ projects[p].repository = row.repository

ContextHolds(p, row) ==
    /\ Accepts(p)
    /\ projects[p].repository = row.repository
    /\ projects[p].active = row.policy

\* tasks_project_hash_unique.
NewDraft(p, row) == \A k \in TaskKey : tasks[p][k] # row

createTask(c) ==
    LET p       == calls[c].project
        k       == calls[c].key
        row     == calls[c].row
        s       == <<"task_create", k>>
        request == [project |-> p, content |-> row.content]
    IN  /\ calls[c] # Idle
        /\ calls' = [calls EXCEPT ![c] = Idle]
        /\ \/ /\ reserve(s)
              /\ ContextHolds(p, row)
              /\ NewDraft(p, row)
              /\ tasks' = [tasks EXCEPT ![p][k] = row]
              /\ completeReservation(s, request, row, 1)
              /\ UNCHANGED <<projects, policies>>
           \/ Replays(s, request) /\ Replay(s, reservations[s].response)
           \/ \* Refused, or cut off before the transaction commits.
              UNCHANGED <<tables, history>>
--------------------------------------------------------------------------------
Next ==
    \/ \E p \in Project, r \in Repository : createProject(p, r)
    \/ \E p \in Project, k \in UpdateKey, patch \in Patch : updateProject(p, k, patch)
    \/ \E p \in Project, k \in PolicyKey, h \in PolicyHash, activate \in BOOLEAN :
           createPolicyVersion(p, k, h, activate)
    \/ \E p \in Project, k \in ActivateKey, target \in PolicyKey : activatePolicy(p, k, target)
    \/ \E c \in Call, p \in Project, k \in TaskKey, x \in Content : getCreationContext(c, p, k, x)
    \/ \E c \in Call : createTask(c)

Spec == Init /\ [][Next]_vars
================================================================================
