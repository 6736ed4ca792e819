-------------------------- MODULE AuthorityAbstract --------------------------
(***************************************************************************)
(* What a holder of grants is promised: a grant is made once, is used while *)
(* it is active, a one-shot grant once, and ends for good.  Every use told  *)
(* to a caller has its own entry among the recorded uses.                   *)
(***************************************************************************)
EXTENDS Naturals

CONSTANTS Grants, OneShot, Callers, Revisions

VARIABLES
    status,     \* "NONE", "ACTIVE", "REVOKED" or "CONSUMED", by grant
    uses,       \* the recorded uses: [grant, revision]
    accepted    \* the uses told to a caller: [grant, revision, by]

avars == <<status, uses, accepted>>

AbsInit ==
    /\ status = [g \in Grants |-> "NONE"]
    /\ uses = {}
    /\ accepted = {}

Create(g) ==
    /\ status[g] = "NONE"
    /\ status' = [status EXCEPT ![g] = "ACTIVE"]
    /\ UNCHANGED <<uses, accepted>>

Revoke(g) ==
    /\ status[g] = "ACTIVE"
    /\ status' = [status EXCEPT ![g] = "REVOKED"]
    /\ UNCHANGED <<uses, accepted>>

\* Uses are recorded one after the other, a one-shot grant's only one.
Use(g, revision) ==
    /\ status[g] = "ACTIVE"
    /\ \A u \in uses : u.revision < revision
    /\ uses' = uses \cup {[grant |-> g, revision |-> revision]}
    /\ status' = [status EXCEPT ![g] = IF g \in OneShot THEN "CONSUMED" ELSE @]
    /\ UNCHANGED accepted

Accept(u, p) ==
    /\ u \in uses
    /\ \A a \in accepted : a.revision # u.revision
    /\ accepted' = accepted \cup {[grant |-> u.grant, revision |-> u.revision, by |-> p]}
    /\ UNCHANGED <<status, uses>>

AbsNext ==
    \/ \E g \in Grants : Create(g) \/ Revoke(g)
    \/ \E g \in Grants, revision \in Revisions : Use(g, revision)
    \/ \E u \in uses, p \in Callers : Accept(u, p)

AbsSpec == AbsInit /\ [][AbsNext]_avars

=============================================================================
