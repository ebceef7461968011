----------------------------- MODULE EscrowLedger -----------------------------
(***************************************************************************)
(* What the registry promises about money, without counters, receipts,     *)
(* deadlines or nested calls.  A task is funded once, with the reward its  *)
(* creator sends; the reward is awarded once, to the creator or to the     *)
(* assignee; and one account at a time collects, in full, what it has been *)
(* awarded and not yet collected.  A transaction may do several of these   *)
(* things, since a contract that is being paid may call the registry, but  *)
(* it does them all or none.                                               *)
(***************************************************************************)
EXTENDS Integers, CoinSums

CONSTANTS Account, TaskId, Unfunded, Escrowed

VARIABLES
    stake,      \* by task: the reward its creator sent
    parties,    \* by task: {creator, assignee}, {} until it is funded
    holder,     \* by task: Unfunded, Escrowed, or the account it is awarded to
    collected   \* by account

vars == <<stake, parties, holder, collected>>

Awarded(a) == Total([t \in TaskId |-> IF holder[t] = a THEN stake[t] ELSE 0])

Init ==
    /\ stake = [t \in TaskId |-> 0]
    /\ parties = [t \in TaskId |-> {}]
    /\ holder = [t \in TaskId |-> Unfunded]
    /\ collected = [a \in Account |-> 0]

Keep(t) == stake'[t] = stake[t] /\ parties'[t] = parties[t]

\* The ways a task can evolve in a transaction.
Stays(t) == Keep(t) /\ holder'[t] = holder[t]

Award(t) == Keep(t) /\ holder[t] = Escrowed /\ holder'[t] \in parties[t]

Fund(t) == /\ holder[t] = Unfunded
           /\ parties'[t] \in SUBSET Account
           /\ holder'[t] \in parties'[t] \cup {Escrowed}

Collect(a) == collected' = [collected EXCEPT ![a] = Awarded(a)]

Transaction ==
    /\ \A t \in TaskId : Stays(t) \/ Award(t) \/ Fund(t)
    /\ UNCHANGED collected \/ \E a \in Account : Collect(a)

Spec == Init /\ [][Transaction]_vars
===============================================================================
