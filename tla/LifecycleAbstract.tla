-------------------------- MODULE LifecycleAbstract --------------------------
(***************************************************************************)
(* What the lifecycle promises a reader of the files: one contract at a    *)
(* time governs the repository, a contract governs once, its scope changes *)
(* only while it governs, and each change is a single step.                *)
(***************************************************************************)
CONSTANTS Contracts, Budgets, NoContract, NoBudget

VARIABLES
    phase,      \* "absent", "initialized", "active" or "closed"
    governing,  \* the contract in force, NoContract when there is none
    latest,     \* the contract closed last
    ended,      \* the contracts that have governed and no longer do
    scope       \* the scope of every contract that governs or has governed

avars == <<phase, governing, latest, ended, scope>>

AbsInit ==
    /\ phase = "absent"
    /\ governing = NoContract
    /\ latest = NoContract
    /\ ended = {}
    /\ scope = [c \in Contracts |-> NoBudget]

Initialize ==
    /\ phase = "absent"
    /\ phase' = "initialized"
    /\ UNCHANGED <<governing, latest, ended, scope>>

Activate(c, b) ==
    /\ phase \in {"initialized", "closed"}
    /\ c \notin ended
    /\ phase' = "active"
    /\ governing' = c
    /\ scope' = [scope EXCEPT ![c] = b]
    /\ UNCHANGED <<latest, ended>>

Rescope(b) ==
    /\ phase = "active"
    /\ scope' = [scope EXCEPT ![governing] = b]
    /\ UNCHANGED <<phase, governing, latest, ended>>

Retire ==
    /\ phase = "active"
    /\ phase' = "closed"
    /\ governing' = NoContract
    /\ latest' = governing
    /\ ended' = ended \cup {governing}
    /\ UNCHANGED scope

AbsNext ==
    \/ Initialize
    \/ \E c \in Contracts, b \in Budgets : Activate(c, b)
    \/ \E b \in Budgets : Rescope(b)
    \/ Retire

AbsSpec == AbsInit /\ [][AbsNext]_avars

=============================================================================
