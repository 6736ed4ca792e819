--------------------------- MODULE LifecycleStore ---------------------------
(***************************************************************************)
(* The files the lifecycle commands share, as values, and the pure         *)
(* functions the commands compute over them:                               *)
(*                                                                         *)
(*   .changebudget/state.json            one record, replaced atomically   *)
(*   .changebudget/contracts/<id>.json   one record per contract           *)
(*   .changebudget/baselines/<id>.json   present or absent                 *)
(*                                                                         *)
(* A contract carries its status and one budget value; a budget stands for *)
(* the request's whole scope (paths, capabilities and ceilings), which the *)
(* code only ever compares for equality.  An audit event's random UUID is  *)
(* its position in audit_history, which only grows.                        *)
(***************************************************************************)
EXTENDS Integers, Sequences, FiniteSets

CONSTANTS
    Contracts,    \* contract identifiers START may generate
    Budgets,      \* the scopes a request may ask for
    NoContract,   \* null in active_contract_id and last_closed_contract_id
    NoBudget      \* the scope of a contract that does not exist

ASSUME ConstantsAssumption ==
    /\ NoContract \notin Contracts
    /\ NoBudget \notin Budgets

Operations == {"init", "start", "amend", "close"}
Phases == {"absent", "initialized", "active", "closed"}
Outcomes == {"pending", "committed", "reconciled", "aborted"}

ContractRef == Contracts \cup {NoContract}
BudgetRef == Budgets \cup {NoBudget}

\* One entry of audit_history.  from and to are lifecycle.before and .after;
\* before and after are the scopes minimum_delta and scope record.
AuditRecord == [op : Operations, contract : ContractRef,
                from : Phases, to : Phases,
                before : BudgetRef, after : BudgetRef,
                outcome : Outcomes]

\* A contract file; status "absent" is a file that does not exist.
ContractFile == [status : {"absent", "active", "closed"}, budget : BudgetRef]
NoFile == [status |-> "absent", budget |-> NoBudget]

\* state.json; phase "absent" is a file that does not exist.
StateFile == [phase : Phases, active : ContractRef, lastClosed : ContractRef,
              audits : Seq(AuditRecord)]

NewAudit(op, c, from, to, before, after) ==
    [op |-> op, contract |-> c, from |-> from, to |-> to,
     before |-> before, after |-> after, outcome |-> "pending"]

PendingEvents(s) ==
    {e \in DOMAIN s.audits : s.audits[e].outcome = "pending"}

Resolve(s, e, outcome) == [s EXCEPT !.audits[e].outcome = outcome]
Append1(s, record) == [s EXCEPT !.audits = Append(s.audits, record)]

-----------------------------------------------------------------------------
(* State writes.                                                           *)

\* A state write that trusts the caller's copy of the history.
MergeAudits_CallerWins(current, incoming) == incoming

\* mergeAuditHistory: union by event id; a terminal record already seen wins,
\* a pending one is replaced by the later copy.
MergeAudits(current, incoming) ==
    [e \in DOMAIN current \cup DOMAIN incoming |->
        IF e \in DOMAIN current
           /\ (current[e].outcome # "pending" \/ e \notin DOMAIN incoming)
        THEN current[e]
        ELSE incoming[e]]

\* transitionToActive and transitionToClosed, on the caller's copy of the
\* state; the write merges the history that copy carries.
ToActive(s, c) == [s EXCEPT !.phase = "active", !.active = c]
ToClosed_KeepsPointer(s) ==
    [s EXCEPT !.phase = "closed", !.lastClosed = s.active]
ToClosed(s) ==
    [s EXCEPT !.phase = "closed", !.active = NoContract, !.lastClosed = s.active]

\* writeLifecycleState: the current file is re-read for its history only.
WriteOver(current, next) ==
    [next EXCEPT !.audits = MergeAudits(current.audits, next.audits)]

\* samePointer: every field but the history.
SamePointer(s, t) ==
    /\ s.phase = t.phase
    /\ s.active = t.active
    /\ s.lastClosed = t.lastClosed

-----------------------------------------------------------------------------
(* What the files prove about a pending audit (auditPostcondition).         *)

\* A START judged by the lifecycle pointer alone.
StartOutcome_ByPointer(s, file, hasBaseline, r) ==
    IF s.phase = "active" /\ s.active = r.contract THEN "applied" ELSE "not_applied"

StartOutcome(s, file, hasBaseline, r) ==
    LET pointed == \/ s.phase = "active" /\ s.active = r.contract
                   \/ /\ s.phase = "closed"
                      /\ s.active = NoContract
                      /\ s.lastClosed = r.contract
        nothingWritten == /\ s.phase = r.from
                          /\ file = NoFile
                          /\ ~hasBaseline
    IN  CASE pointed /\ file.status = s.phase /\ hasBaseline -> "applied"
          [] ~pointed /\ nothingWritten -> "not_applied"
          [] OTHER -> "uncertain"

\* An AMEND that is either done or undecidable.
AmendOutcome_DoneOrUnknown(s, file, r) ==
    IF s.active = r.contract /\ file.budget = r.after THEN "applied" ELSE "uncertain"

AmendOutcome(s, file, r) ==
    LET governed == /\ s.phase = "active"
                    /\ s.active = r.contract
                    /\ file.status = "active"
    IN  CASE governed /\ file.budget = r.after -> "applied"
          [] governed /\ file.budget # r.after /\ file.budget = r.before
               -> "not_applied"
          [] OTHER -> "uncertain"

\* A CLOSE whose contract file alone decides.
CloseOutcome_ByContractFile(s, file, r) ==
    CASE r.from = "closed" -> "not_applied"
      [] r.from = "active" /\ file.status = "closed" -> "applied"
      [] OTHER -> "not_applied"

CloseOutcome(s, file, r) ==
    LET closed == /\ s.phase = "closed"
                  /\ s.active = NoContract
                  /\ s.lastClosed = r.contract
                  /\ file.status = "closed"
        stillActive == /\ s.phase = "active"
                       /\ s.active = r.contract
                       /\ file.status = "active"
    IN  CASE r.from = "closed" /\ closed -> "not_applied"
          [] r.from = "active" /\ closed -> "applied"
          [] r.from = "active" /\ stillActive -> "not_applied"
          [] OTHER -> "uncertain"

AuditOutcome(s, files, baselines, r) ==
    IF r.op = "init"
    THEN IF s.phase = "absent" THEN "uncertain" ELSE "applied"
    ELSE LET file == files[r.contract]
         IN  CASE r.op = "start" -> StartOutcome(s, file, baselines[r.contract], r)
               [] r.op = "amend" -> AmendOutcome(s, file, r)
               [] r.op = "close" -> CloseOutcome(s, file, r)

=============================================================================
