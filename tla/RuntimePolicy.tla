----------------------------- MODULE RuntimePolicy -----------------------------
(***************************************************************************)
(* The rules of the OpenCode guard, as functions of what it has read: how a *)
(* target of an operation is classified on disk, how it stands with the     *)
(* contract's scope, what the execution gate says of a material decision,   *)
(* and the effect these project to.                                        *)
(*                                                                         *)
(* Cutting a shell command into words is left out: a command is what its    *)
(* text was classified as, with the names among its words, and the resources *)
(* git status was split into are one.  Messages and rule identifiers are     *)
(* left out.                                                               *)
(***************************************************************************)
EXTENDS PathPatterns, ExecutionGate

CONSTANTS
    SensitiveAs,   \* the kinds of sensitive file each path is one of
    OwnPaths,      \* the paths of .changebudget
    Names,         \* what an event may call a target; a path is its own name from the root
    Meaning,       \* the path each name means, or Outside
    PathLike,      \* the names looksLikePath recognises: not Makefile, nor src/[id].ts
    NoPath,        \* null
    Outside        \* no path of the repository

SensitiveKinds == {"dependencies", "migrations", "config", "publicApi"}

ASSUME PolicyAssumption ==
    /\ SensitiveAs \in [Paths -> SUBSET SensitiveKinds]
    /\ OwnPaths \subseteq Paths
    /\ Paths \subseteq Names /\ PathLike \subseteq Names
    /\ Meaning \in [Names -> Paths \cup {Outside}] /\ \A p \in Paths : Meaning[p] = p
    /\ NoPath \notin Names /\ Outside \notin Paths /\ NoPath # Outside

Effects == {"allow", "ask", "deny"}
Actions == {"allow", "ask", "block"}
ManagedClasses == {"changebudget-managed-mutation", "changebudget-force-close",
                   "changebudget-external-mutation"}
ForbiddenClasses == {"changebudget-operator-recovery", "changebudget-governed-admin-mutation",
                     "changebudget-unsupported"}

---------------------------------------------------------------------------
(* From a permission event to operations                                    *)

EditContext(resource) ==
    [class |-> "repository-mutation", intent |-> "mutate", target |-> resource,
     resolved |-> resource # NoPath]

\* A changebudget command names no target of its own.
operationFromChangeBudgetClass(class) ==
    [class |-> class,
     intent |-> IF class = "read-only" THEN "read-only" ELSE "mutate",
     target |-> NoPath,
     resolved |-> class # "changebudget-unsupported"]

\* The first word that looks like a path, or the file of dependencies the program
\* writes; none of git commit, merge and status, nor of git in a pipeline.
extractPathFromCommand(command) ==
    LET found == {i \in DOMAIN command.words : command.words[i] \in PathLike}
    IN IF command.pathless THEN NoPath
       ELSE IF found = {} THEN command.inferred
       ELSE command.words[CHOOSE i \in found : \A j \in found : i <= j]

extractCommandContext(command) ==
    LET target == extractPathFromCommand(command)
    IN IF command.own # "none" THEN operationFromChangeBudgetClass(command.own)
       ELSE IF command.intent = "read-only"
       THEN [class |-> "read-only", intent |-> "read-only", target |-> NoPath, resolved |-> TRUE]
       ELSE [class |-> IF target = NoPath THEN "unresolved-mutation" ELSE "repository-mutation",
             intent |-> "mutate", target |-> target, resolved |-> target # NoPath]

EmptyCommand == [own |-> "none", intent |-> "mutate", pathless |-> FALSE, words |-> <<>>,
                 inferred |-> NoPath]

\* An edit or a command without a resource is one unresolved mutation; every
\* action that is neither edit nor shell counts as reading.
buildOperationContexts(event) ==
    LET Resources(none) == IF event.resources = {} THEN {none} ELSE event.resources
    IN CASE event.action = "edit" -> {EditContext(r) : r \in Resources(NoPath)}
         [] event.action = "shell" -> {extractCommandContext(c) : c \in Resources(EmptyCommand)}
         [] OTHER -> {[class |-> "read-only", intent |-> "read-only", target |-> NoPath,
                       resolved |-> FALSE]}

---------------------------------------------------------------------------
(* A target on disk.  disk[p] is [kind, place]: a link, and a path inside a  *)
(* linked directory, have their place elsewhere.                           *)

DiskEntries == [kind : {"file", "missing", "unsafe"}, place : {NoPath}]
               \cup [kind : {"link", "linked directory"}, place : Paths]

Classified(state, effective) == [state |-> state, effective |-> effective]

classifyTargetCreation(disk, p) ==
    LET entry == disk[p]
        placed == IF entry.place = NoPath THEN p ELSE entry.place
    IN CASE disk[placed].kind = "file" -> Classified("existing-file", placed)
         [] disk[placed].kind = "missing" /\ entry.kind \in {"missing", "linked directory"} ->
                Classified("new-file", placed)
         [] OTHER -> Classified("unsafe", NoPath)

\* mutant: only the path as it is named is held against the scope
TargetPaths_Lexical(disk, p) == {p}
\* The path as it is named and the place it leads to.
TargetPaths(disk, p) == {p} \cup ({classifyTargetCreation(disk, p).effective} \ {NoPath})

---------------------------------------------------------------------------
(* A target and the scope of the contract: [allow, deny, newFiles, permits,  *)
(* compiles]                                                               *)

\* The repository path a name is understood as: null of a name looksLikePath does
\* not recognise, as of one outside the repository.
toRepoRelativePath(name) ==
    IF name \in PathLike /\ Meaning[name] \in Paths THEN Meaning[name] ELSE NoPath

\* Patterns that cannot be compiled deny nothing and allow nothing.
isPathDenied(scope, paths) == scope.compiles /\ \E p \in paths : MatchedDeny(scope, p)
isPathNotAllowed(scope, paths) ==
    \E p \in paths : scope.compiles => ~MatchedAllow(scope, p)
buildSensitiveFlags(scope, paths) == (UNION {SensitiveAs[p] : p \in paths}) \ scope.permits

NoScope == [allow |-> {}, deny |-> {}, newFiles |-> FALSE, permits |-> {}, compiles |-> TRUE,
            known |-> FALSE]

\* What the projection is given.  evaluation is [inited, decision, scope,
\* blocked], blocked being what the execution gate projects to.  A target that is
\* understood as no path is held against nothing.
toRuntimeContext(disk, operation, evaluation) ==
    LET target == toRepoRelativePath(operation.target)
        named == target # NoPath
        scope == evaluation.scope
        paths == IF named THEN TargetPaths(disk, target) ELSE {}
        found == IF named THEN classifyTargetCreation(disk, target).state ELSE "none"
    IN [decision |-> evaluation.decision, blocked |-> evaluation.blocked,
        inited |-> evaluation.inited,
        class |-> operation.class, intent |-> operation.intent,
        resolved |-> IF named THEN found # "unsafe" /\ (evaluation.inited => scope.known)
                              ELSE operation.resolved,
        denied |-> scope.known /\ isPathDenied(scope, paths),
        notAllowed |-> scope.known /\ isPathNotAllowed(scope, paths),
        sensitive |-> IF scope.known THEN buildSensitiveFlags(scope, paths) ELSE {},
        newFileDenied |-> scope.known /\ found = "new-file" /\ ~scope.newFiles,
        own |-> paths \cap OwnPaths # {}]

---------------------------------------------------------------------------
(* Governance                                                              *)

NotEvaluated == [Governance("NONE") EXCEPT !.kind = "ABSENT"]

\* The event's material decision against the envelope as it stands; nothing
\* is recorded.
evaluateGovernance(envelope, input) ==
    CASE input.kind = "ABSENT" -> NotEvaluated
      [] input.kind = "INVALID" -> InvalidProposal
      [] input.kind = "VALID" ->
            IF \E k \in DOMAIN envelope.ledger :
                   /\ envelope.ledger[k].proposal.id = input.proposal.id
                   /\ envelope.ledger[k].proposal # input.proposal
            THEN InvalidProposal
            ELSE Evaluate(envelope, input.proposal)

projectExecutionGateBlock(gate) ==
    \/ gate.kind = "INVALID_PROPOSAL"
    \/ gate.kind = "GOVERNANCE" /\ gate.verdict # "APPROVE"

---------------------------------------------------------------------------
(* The projection                                                          *)

Blocking(context) ==
    \/ ~context.resolved
    \/ context.own
    \/ context.denied
    \/ context.decision \in {"REPAIR", "HUMAN_REVIEW"}
    \/ context.newFileDenied

Asking(context) == context.notAllowed \/ context.sensitive # {}

projectRuntimeDecision(context) ==
    IF context.class \in ForbiddenClasses THEN "block"
    ELSE IF ~context.inited /\ context.class \notin ManagedClasses THEN "allow"
    ELSE IF context.blocked THEN "block"
    ELSE IF context.class \in ManagedClasses THEN "ask"
    ELSE IF context.intent = "read-only" THEN "allow"
    ELSE IF Blocking(context) THEN "block"
    ELSE IF Asking(context) THEN "ask"
    ELSE "allow"

permissionRank(effect) == CASE effect = "deny" -> 2 [] effect = "ask" -> 1 [] OTHER -> 0
projectionRank(action) == CASE action = "block" -> 2 [] action = "ask" -> 1 [] OTHER -> 0
effectFromRank(rank) == IF rank >= 2 THEN "deny" ELSE IF rank = 1 THEN "ask" ELSE "allow"
=============================================================================
