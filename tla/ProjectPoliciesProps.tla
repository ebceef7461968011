-------------------------- MODULE ProjectPoliciesProps --------------------------
(***************************************************************************)
(* What projects, policies, drafts and idempotency keys promise.           *)
(***************************************************************************)
EXTENDS ProjectPolicies

\* Every variable holds what its columns can hold, and every request has read
\* a project that exists.
TypeOK ==
    /\ projects \in [Project -> ProjectRow \cup {NoProject}]
    /\ policies \in [Project -> [PolicyKey -> PolicyHash \cup {NoPolicy}]]
    /\ tasks \in [Project -> [TaskKey -> TaskRow \cup {NoTask}]]
    /\ reservations \in [Slot -> Reservation \cup {Free}]
    /\ calls \in [Call -> CallRecord \cup {Idle}]
    /\ answers \in [Slot -> SUBSET Response]
    /\ audits \in [Slot -> Nat]

\* PRD.md: "Core operations are idempotent".  However often a request arrives,
\* in whatever order with requests that undo it, it takes effect at most once,
\* and all of its answers are the same.
RetriesActOnce ==
    \A s \in Slot : audits[s] <= 1 /\ Cardinality(answers[s]) <= 1

\* The repository whose identity a task's hash commits to stays that of its
\* project: neither an update after the draft nor one between the reading of
\* the project and the draft can part them.
TaskKeepsRepository ==
    \A p \in Project, k \in TaskKey :
        tasks[p][k] # NoTask => tasks[p][k].repository = projects[p].repository

\* A draft is made for the policy that is active when it is stored, in a project
\* that is not archived then, though both were read before; and its hash names
\* that policy's content.
DraftsAreCurrent ==
    [][\A p \in Project, k \in TaskKey :
          tasks'[p][k] # tasks[p][k] =>
              /\ tasks[p][k] = NoTask
              /\ projects[p].status = "active"
              /\ tasks'[p][k].policy = projects[p].active
              /\ tasks'[p][k].policyHash = policies[p][projects[p].active]]_vars
================================================================================
