--------------------------- MODULE EnvelopeAbstract ---------------------------
(***************************************************************************)
(* What the holders of a contract's execution envelope are promised: each  *)
(* operation on it happens at once, on the contract as it then is.         *)
(***************************************************************************)
EXTENDS ExecutionGate

CONSTANTS Proposals, Submissions, Authorities, Scopes, None

VARIABLE contract   \* [status, scope, envelope]

FreshEnvelope(authority) ==
    [authority |-> authority, state |-> "OPEN",
     evidence |-> [c \in Criteria |-> {}], ledger |-> <<>>]

AbsInit ==
    \E envelope \in {None} \cup {FreshEnvelope(a) : a \in Authorities},
       scope \in Scopes :
        contract = [status |-> "active", scope |-> scope, envelope |-> envelope]

Attach ==
    /\ contract.envelope = None
    /\ \E a \in Authorities :
          contract' = [contract EXCEPT !.envelope = FreshEnvelope(a)]

\* Evidence accumulates, and completes the contract when nothing is missing.
Submit ==
    /\ contract.envelope # None
    /\ \E submission \in Submissions :
          LET evidence == MergeEvidence(contract.envelope.evidence, submission)
          IN  contract' = [contract EXCEPT
                 !.envelope.evidence = evidence,
                 !.envelope.state = IF Complete(evidence) THEN "CONTRACT_SATISFIED" ELSE "OPEN"]

\* A decision enters the ledger once, with the verdict of that moment.
Record ==
    /\ contract.envelope # None
    /\ \E p \in Proposals :
          LET outcome == Evaluate(contract.envelope, p)
          IN  /\ outcome.kind = "GOVERNANCE"
              /\ \A i \in DOMAIN contract.envelope.ledger :
                    contract.envelope.ledger[i].proposal.id # p.id
              /\ contract' = [contract EXCEPT !.envelope.ledger =
                                 Append(@, [proposal |-> p, outcome |-> outcome])]

Rescope ==
    /\ contract.status = "active"
    /\ \E scope \in Scopes : contract' = [contract EXCEPT !.scope = scope]

Retire ==
    /\ contract.status = "active"
    /\ contract' = [contract EXCEPT !.status = "closed"]

AbsSpec == AbsInit /\ [][Attach \/ Submit \/ Record \/ Rescope \/ Retire]_contract

=============================================================================
