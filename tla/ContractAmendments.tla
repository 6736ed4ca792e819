-------------------------- MODULE ContractAmendments --------------------------
(***************************************************************************)
(* The amendments of an active contract: what AMEND accepts, what it writes *)
(* and what the histories it leaves behind must satisfy, since AMEND and    *)
(* CLOSE refuse a contract whose histories do not explain its budget.       *)
(*                                                                         *)
(* A contract is a budget with three more fields: base (whether its          *)
(* base_revision is the text HEAD or names a commit), budgetHistory (for each *)
(* amendment the change of each limit) and scopeHistory (for each amendment  *)
(* the paths it added).  The sequence number of an entry is its position;    *)
(* times, reasons and identifiers of contracts are left out.                *)
(***************************************************************************)
EXTENDS BudgetRules

CONSTANTS
    Literals,      \* the paths that are safe literals outside .changebudget
    NotAsked,      \* a limit the command does not name
    NoChange       \* a limit an amendment leaves alone

ASSUME AmendmentAssumption ==
    /\ Literals \subseteq Paths
    /\ NotAsked \notin Nat \cup {NoLimit}
    /\ NoChange \notin [before : Nat \cup {NoLimit}, after : Nat]

LimitFields == {"maxFiles", "maxLines"}
Limits == Nat \cup {NoLimit}

ContractTyped(contract) ==
    /\ DOMAIN contract = {"allow", "deny", "maxFiles", "maxLines", "newFiles", "profile",
                          "disabled", "base", "budgetHistory", "scopeHistory"}
    /\ contract.base \in {"HEAD", "commit"}
    /\ \A f \in LimitFields : contract[f] \in Limits
    /\ contract.budgetHistory \in
           Seq([LimitFields -> {NoChange} \cup [before : Limits, after : Nat]])
    /\ contract.scopeHistory \in Seq(SUBSET Paths)

AmendRequest == [maxFiles : Nat \cup {NotAsked}, maxLines : Nat \cup {NotAsked},
                 paths : SUBSET Paths, reason : BOOLEAN]

---------------------------------------------------------------------------
(* What a history must satisfy *)

Untouched(history, field, from, to) == \A k \in from..to : history[k][field] = NoChange

\* Each change starts from the value the one before it left, really changes
\* something, and the last one left the value the contract has.
FieldExplained(history, field, limit) ==
    \A i \in DOMAIN history : history[i][field] # NoChange =>
        /\ history[i][field].before # history[i][field].after
        /\ \A j \in (i + 1)..Len(history) :
               history[j][field] # NoChange /\ Untouched(history, field, i + 1, j - 1)
                   => history[j][field].before = history[i][field].after
        /\ Untouched(history, field, i + 1, Len(history)) => history[i][field].after = limit

validateBudgetAmendments(contract) ==
    /\ \A i \in DOMAIN contract.budgetHistory :
           \E f \in LimitFields : contract.budgetHistory[i][f] # NoChange
    /\ \A f \in LimitFields : FieldExplained(contract.budgetHistory, f, contract[f])

\* Every added path is a safe literal, was added once, and is still allowed.
validateScopeAmendments(contract) ==
    /\ \A i \in DOMAIN contract.scopeHistory :
           /\ contract.scopeHistory[i] # {}
           /\ contract.scopeHistory[i] \subseteq Literals
           /\ \A p \in contract.scopeHistory[i] : LiteralPattern(PathChars[p]) \in contract.allow
    /\ \A i, j \in DOMAIN contract.scopeHistory :
           i # j => contract.scopeHistory[i] \cap contract.scopeHistory[j] = {}

HistoriesExplainBudget(contract) ==
    validateBudgetAmendments(contract) /\ validateScopeAmendments(contract)

---------------------------------------------------------------------------
(* AMEND.  A request is [maxFiles, maxLines, paths, reason]. *)

parseAmendArgs(request) ==
    /\ \/ request.maxFiles # NotAsked
       \/ request.maxLines # NotAsked
       \/ request.paths # {}
    /\ request.paths \subseteq Literals
    /\ request.paths # {} => request.reason

\* mutant: a path that is allowed already is added again
prepareScopeAmendment_Again(contract, request) ==
    /\ validateScopeAmendments(contract)
    /\ request.paths # {} =>
           /\ contract.allow # {}
           /\ \A p \in request.paths : ~matchPathPattern(p, contract.deny)

\* A contract that allows every path cannot be widened, and a path that is
\* allowed already or denied is not added.
prepareScopeAmendment(contract, request) ==
    /\ validateScopeAmendments(contract)
    /\ request.paths # {} =>
           /\ contract.allow # {}
           /\ \A p \in request.paths : /\ ~matchPathPattern(p, contract.allow)
                                       /\ ~matchPathPattern(p, contract.deny)

LimitChange(contract, request, field) ==
    IF request[field] \in {NotAsked, contract[field]} THEN NoChange
    ELSE [before |-> contract[field], after |-> request[field]]

Changes(contract, request) == [f \in LimitFields |-> LimitChange(contract, request, f)]
ChangesLimits(contract, request) ==
    \E f \in LimitFields : LimitChange(contract, request, f) # NoChange

AmendAccepted(contract, request) ==
    /\ parseAmendArgs(request)
    /\ validateBudgetAmendments(contract)
    /\ prepareScopeAmendment(contract, request)
    /\ ChangesLimits(contract, request) \/ request.paths # {}

amendContractUnderLock(contract, request) ==
    [contract EXCEPT
        !.maxFiles = IF LimitChange(contract, request, "maxFiles") = NoChange
                     THEN @ ELSE request.maxFiles,
        !.maxLines = IF LimitChange(contract, request, "maxLines") = NoChange
                     THEN @ ELSE request.maxLines,
        !.allow = @ \cup {LiteralPattern(PathChars[p]) : p \in request.paths},
        !.budgetHistory = IF ChangesLimits(contract, request)
                          THEN Append(@, Changes(contract, request)) ELSE @,
        !.scopeHistory = IF request.paths = {} THEN @ ELSE Append(@, request.paths)]
=============================================================================
