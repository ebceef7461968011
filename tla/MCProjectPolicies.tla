---------------------------- MODULE MCProjectPolicies ---------------------------
(***************************************************************************)
(* ProjectPolicies for TLC.                                                *)
(***************************************************************************)
EXTENDS TaskIntents, TLC

\* An update moves the repository or changes the status.
OneField ==
    [repository : Repository, status : {Keep}] \cup [repository : {Keep}, status : Status]

Symmetry == Permutations(UpdateKey) \cup Permutations(PolicyKey) \cup Permutations(Call)
            \cup Permutations(Repository) \cup Permutations(PolicyHash)
            \cup Permutations(TaskKey) \cup Permutations(ActivateKey)
            \cup Permutations(IntentKey) \cup Permutations(OutcomeKey)
================================================================================
