------------------------------ MODULE RuntimeGuard ------------------------------
(***************************************************************************)
(* The OpenCode permission hook: one evaluation at a time, beside the       *)
(* lifecycle commands, the registry's transactions and the user.  It reads   *)
(* the state, has CHECK read the state and the contract again, reads the     *)
(* contract a third time for its scope, classifies each target on disk,      *)
(* takes the most restrictive of its projections and the host's effect, and  *)
(* verifies a grant when the event refers to one.                          *)
(*                                                                         *)
(* CHECK's decision is any of the three here: BaselineCheck derives it.     *)
(***************************************************************************)
EXTENDS AuthorityObservation

CONSTANTS
    Envelopes,   \* the execution envelopes a contract may carry at that moment
    Inputs,      \* material decisions of an event: [kind, proposal]
    Events       \* permission events: [action, resources]

Decisions == {"PASS", "REPAIR", "HUMAN_REVIEW"}

\* What an operation of an event is told by.
Contexts == [class : ManagedClasses \cup ForbiddenClasses \cup
                       {"read-only", "repository-mutation", "unresolved-mutation"},
             intent : {"mutate", "read-only"}, target : Names \cup {NoPath},
             resolved : BOOLEAN]

ASSUME EventsAssumption ==
    \A event \in Events : buildOperationContexts(event) \subseteq Contexts

VARIABLES
    guard   \* [phase, inited, seen, checked, decision, scoped, budget, blocked, stood,
            \*  todo, targets, action, effect, edit]

guardVars == <<vars, observationVars, guard>>
environment == <<vars, worldVars>>

Idle == [phase |-> "idle", inited |-> FALSE, seen |-> NoContract, checked |-> NoContract,
         decision |-> "PASS", scoped |-> NoContract, budget |-> NoBudget, blocked |-> FALSE,
         stood |-> FALSE, todo |-> {}, targets |-> {}, action |-> "allow", effect |-> "allow",
         edit |-> NoPath]

---------------------------------------------------------------------------
(* evaluateRuntimeDecision                                                 *)

\* The first reading.  It may fail; a pending audit does not stop it.
ReadState ==
    /\ guard.phase = "idle"
    /\ \/ guard' = [Idle EXCEPT !.phase = "event", !.inited = TRUE, !.decision = "HUMAN_REVIEW"]
       \/ guard' = IF state.phase = "absent"
                   THEN [Idle EXCEPT !.phase = "event"]
                   ELSE IF state.active = NoContract
                   THEN [Idle EXCEPT !.phase = "event", !.inited = TRUE]
                   ELSE [Idle EXCEPT !.phase = "check", !.inited = TRUE, !.seen = state.active]
    /\ UNCHANGED <<environment, obs>>

CheckFailed == [guard EXCEPT !.phase = "event", !.decision = "HUMAN_REVIEW"]

\* runCheck reads the state for itself, then that contract.
CheckReadsState ==
    /\ guard.phase = "check"
    /\ guard' = IF state.active = NoContract THEN CheckFailed
                ELSE [guard EXCEPT !.phase = "checkContract", !.checked = state.active]
    /\ UNCHANGED <<environment, obs>>

\* A contract that is not active, and whatever else CHECK stumbles on, is an
\* error or a HUMAN_REVIEW.
CheckDecides ==
    /\ guard.phase = "checkContract"
    /\ \/ \E decision \in Decisions :
              /\ contract[guard.checked].status # "active" => decision = "HUMAN_REVIEW"
              /\ guard' = [guard EXCEPT !.phase = "resolve", !.decision = decision]
       \/ guard' = CheckFailed
    /\ UNCHANGED <<environment, obs>>

\* mutant: the contract is taken as it is found
ResolvesTo_Unchecked(c) == contract[c] # NoFile
\* resolveActiveContract with the first reading of the state
ResolvesTo(c) == contract[c].status = "active"

\* What the execution gate may say of the event's material decision.
Gates == {NotEvaluated} \cup {evaluateGovernance(e, i) : e \in Envelopes, i \in Inputs}

\* A contract that does not resolve is no scope, not an error.
ResolveContract ==
    /\ guard.phase = "resolve"
    /\ IF ResolvesTo(guard.seen)
       THEN \E gate \in Gates :
                guard' = [guard EXCEPT !.phase = "event", !.scoped = guard.seen,
                              !.budget = contract[guard.seen].budget,
                              !.blocked = projectExecutionGateBlock(gate),
                              !.stood = /\ state.active = guard.seen
                                        /\ contract[guard.seen].status = "active"]
       ELSE guard' = [guard EXCEPT !.phase = "event"]
    /\ UNCHANGED <<environment, obs>>

---------------------------------------------------------------------------
(* The hook                                                                *)

Scope == IF guard.scoped = NoContract THEN NoScope ELSE Rules[guard.budget]

Evaluation == [inited |-> guard.inited, decision |-> guard.decision, scope |-> Scope,
               blocked |-> guard.blocked]

MoreRestrictive(left, right) ==
    IF projectionRank(right) > projectionRank(left) THEN right ELSE left

Max2(a, b) == IF a > b THEN a ELSE b

\* What the host decided and what the guard decided, the stricter of the two.
\* The grounds are kept of an allowed change only, until the answer is given.
Combined(projected, host) ==
    LET effect == effectFromRank(Max2(permissionRank(host), projectionRank(projected.action)))
    IN IF effect = "allow" /\ projected.targets # {}
       THEN [projected EXCEPT !.phase = "reference", !.blocked = FALSE]
       ELSE [Idle EXCEPT !.phase = "reference", !.effect = effect, !.edit = projected.edit]

\* The path a target is understood as and where it leads to on disk at this
\* moment, kept for the property.
Reached(target) ==
    LET p == toRepoRelativePath(target)
    IN IF p = NoPath THEN {} ELSE {p, disk[p].place} \ {NoPath}

\* The one path an edit is about, if its own name is recognised.
EditedPath(event) ==
    IF /\ event.action = "edit" /\ Cardinality(event.resources) = 1
       /\ \A r \in event.resources : Meaning[r] \in PathLike \cap Paths
    THEN CHOOSE p \in Paths : \E r \in event.resources : Meaning[r] = p ELSE NoPath

\* One operation of the event; the disk may change before the next.
Project(operations, edit) ==
    /\ \E operation \in operations, host \in Effects :
           LET context == toRuntimeContext(disk, operation, Evaluation)
               mutated == IF operation.intent = "mutate" THEN Reached(operation.target) ELSE {}
               projected == [guard EXCEPT !.phase = "project", !.edit = edit,
                                !.todo = operations \ {operation},
                                !.targets = @ \cup mutated,
                                !.action = MoreRestrictive(@, projectRuntimeDecision(context))]
           IN guard' = IF projected.todo = {} THEN Combined(projected, host) ELSE projected
    /\ UNCHANGED <<environment, obs>>

ReadEvent ==
    /\ guard.phase = "event"
    /\ \E event \in Events : Project(buildOperationContexts(event), EditedPath(event))

ProjectNext == guard.phase = "project" /\ Project(guard.todo, guard.edit)

Answered(effect) == [Idle EXCEPT !.effect = effect]
Deny == Answered("deny")

\* No reference leaves the effect; a malformed one, one outside a trusted
\* session and one for anything but an edit deny it.  An edit is projected to
\* its facts, which the reference must name exactly.
projectActualEdit(fact) == disk[fact.path].kind = "file"

ReadReference ==
    /\ guard.phase = "reference"
    /\ \/ guard' = Answered(guard.effect) /\ obs' = obs
       \/ guard' = Deny /\ obs' = obs
       \/ \E fact \in Requests, descriptor \in Requests :
              /\ guard.edit = fact.path
              /\ projectActualEdit(fact)
              /\ IF descriptor = fact
                 THEN /\ guard' = [Answered(guard.effect) EXCEPT !.phase = "verify"]
                      /\ obs' = verifyGrant(fact)
                 ELSE /\ guard' = Deny
                      /\ obs' = obs
    /\ UNCHANGED environment

\* Verification can only keep the effect or deny it.
Verified ==
    /\ guard.phase = "verify" /\ obs.answer # "none"
    /\ guard' = IF obs.answer = "VERIFIED" THEN Answered(guard.effect) ELSE Deny
    /\ obs' = NoObservation
    /\ UNCHANGED environment

\* An exception anywhere in the hook denies.
HookThrows ==
    /\ guard.phase \in {"project", "reference"}
    /\ guard' = Deny
    /\ UNCHANGED <<environment, obs>>

Hook ==
    \/ ReadState \/ CheckReadsState \/ CheckDecides \/ ResolveContract
    \/ ReadEvent \/ ProjectNext \/ ReadReference \/ Verified \/ HookThrows

---------------------------------------------------------------------------

GuardInit == Init /\ ObservationInit /\ guard = Idle

GuardNext ==
    \/ LifecycleStep /\ UNCHANGED <<observationVars, guard>>
    \/ World /\ UNCHANGED <<vars, obs, guard>>
    \/ Observe /\ UNCHANGED <<vars, guard>>
    \/ Hook

GuardSpec == GuardInit /\ [][GuardNext]_guardVars

---------------------------------------------------------------------------
(* Properties                                                              *)

GuardPhases == {"idle", "check", "checkContract", "resolve", "event", "project", "reference",
                "verify"}
Works == [contract : Contracts, budget : Budgets]

\* The types of the guard, of the verification and of what they look at.
GuardTypeOK ==
    /\ disk \in [Paths -> DiskEntries]
    /\ registry.grant \in Works \cup {NoGrant}
    /\ registry.lifecycle \in {"NONE", "ACTIVE", "TERMINAL"}
    /\ registry.revision \in 0..MaxRegistryWrites
    /\ registryLock \in {Free, "local", "foreign"}
    /\ edits \in 0..MaxEdits
    /\ obs.step \in 0..Len(Script)
    /\ obs.request \in Requests \cup {NotRead}
    /\ obs.fits \in BOOLEAN /\ obs.settled \in BOOLEAN
    /\ obs.answer \in {"none", "VERIFIED", "REJECTED"}
    /\ obs.step # 0 => obs.request \in Requests /\ obs.answer = "none"
    /\ guard.phase \in GuardPhases
    /\ guard.inited \in BOOLEAN /\ guard.stood \in BOOLEAN
    /\ {guard.seen, guard.checked, guard.scoped} \subseteq Contracts \cup {NoContract}
    /\ guard.decision \in Decisions
    /\ guard.budget \in Budgets \cup {NoBudget}
    /\ guard.scoped # NoContract => guard.budget \in Budgets
    /\ guard.blocked \in BOOLEAN
    /\ guard.todo \subseteq Contexts
    /\ guard.targets \subseteq Paths
    /\ guard.action \in Actions
    /\ guard.effect \in Effects
    /\ guard.edit \in Paths \cup {NoPath}

WithinScope(scope, p) ==
    PathAllowed(scope, p) /\ p \notin OwnPaths /\ SensitiveAs[p] \subseteq scope.permits

\* A change of targets the guard understands as paths, when it allows it in an
\* initialised repository, was judged by CHECK and by the scope of one and the same
\* contract, although each of them read the files for itself while commands ran;
\* the lifecycle pointed to that contract, and it was active, when its scope was
\* read; and each of these paths, and every place one leads to, is within that
\* scope.  Names it understands as no path, and the words of a command after the
\* first it understands, are held against nothing: UnrecognisedNamesUnjudged and
\* LaterWordsUnjudged in module MCRuntimeGuard.
AllowedUnderOneContract ==
    guard.phase = "reference" /\ guard.effect = "allow" /\ guard.inited /\ guard.targets # {} =>
        /\ guard.scoped # NoContract
        /\ guard.stood
        /\ guard.checked = guard.scoped
        /\ guard.decision = "PASS"
        /\ \A p \in guard.targets : WithinScope(Rules[guard.budget], p)

\* A verified grant was judged on one moment of the repository: state, contract
\* and registry, opened one after another without a lock, were all as observed
\* when the judgement was made, with the contract active and the grant its own.
VerifiedWasSettled ==
    obs.answer = "VERIFIED" =>
        /\ obs.settled
        /\ obs.seen.contract.status = "active"
        /\ obs.seen.registry.lifecycle = "ACTIVE"
        /\ obs.seen.registry.grant = Work(obs.seen.state, obs.seen.contract)
=============================================================================
