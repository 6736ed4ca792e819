-------------------------- MODULE AuthorityObservation --------------------------
(***************************************************************************)
(* The read-only verification of a grant: state, active contract and grant  *)
(* registry are opened one after another without taking a lock, the grant   *)
(* is judged on what was read, and the locks and the files are looked at    *)
(* twice more before the answer counts.                                    *)
(*                                                                         *)
(* The lifecycle commands of Lifecycle run beside it, and transactions on   *)
(* the registry: local ones hold the state lock and the contract lock too,  *)
(* those of another repository the registry lock alone.  The registry has   *)
(* at most one grant of this repository.  Reasons of refusal are left out.  *)
(***************************************************************************)
EXTENDS Lifecycle, RuntimePolicy

CONSTANTS
    Rules,               \* of each budget: the scope, maxFiles and maxLines
    Terms,               \* of the grant: [scope, newFiles, permits, maxFiles, maxLines]
    Requests,            \* what is asked to verify: [path, maxFiles, maxLines]
    NoLimit,             \* a numeric limit that is null
    NoGrant,             \* no grant has been created
    NotRead,             \* a file not observed yet
    UserPaths,           \* bound: the paths the user changes
    InitialDisks,        \* the working trees a behaviour may start from
    MaxRegistryWrites,   \* bound: transactions on the registry
    MaxEdits,            \* bound: changes of the user to the working tree
    MaxMoves             \* bound: audits, registry transactions and edits together

ASSUME ObservationAssumption ==
    /\ UserPaths \subseteq Paths
    /\ InitialDisks \subseteq [Paths -> DiskEntries]
    /\ MaxRegistryWrites \in Nat /\ MaxEdits \in Nat /\ MaxMoves \in Nat
    /\ Requests # {}

VARIABLES
    disk,           \* the working tree
    registry,       \* [grant, lifecycle, revision]
    registryLock,   \* Free, or whose transaction runs: "local", "foreign"
    edits,          \* changes of the user so far
    obs             \* the verification: [step, request, seen, fits, answer, settled]

worldVars == <<disk, registry, registryLock, edits>>
observationVars == <<disk, registry, registryLock, edits, obs>>

\* What may change beneath a hook or a verification that runs.
Moves == Len(state.audits) + registry.revision + edits
MovesLeft == Moves < MaxMoves

---------------------------------------------------------------------------
(* The registry and the disk                                               *)

\* What a grant is bound to: the active contract as it was.
Work(s, record) == [contract |-> s.active, budget |-> record.budget]

\* A local transaction starts from a coherent context, with its locks held.
CoherentWork(s, record) ==
    /\ s.phase = "active"
    /\ ~HasPending(s)
    /\ record.status = "active"

RegistryBegin(who) ==
    /\ registryLock = Free
    /\ registry.revision < MaxRegistryWrites
    /\ MovesLeft
    /\ who = "local" => /\ stateLock = Free
                        /\ state.active # NoContract => contractLock[state.active] = Free
    /\ registryLock' = who
    /\ UNCHANGED <<disk, registry, edits>>

\* create; revoke, or the use of a one-shot grant
RegistryCreate ==
    /\ registryLock = "local"
    /\ registry.grant = NoGrant
    /\ state.active # NoContract
    /\ CoherentWork(state, contract[state.active])
    /\ registry' = [grant |-> Work(state, contract[state.active]), lifecycle |-> "ACTIVE",
                    revision |-> registry.revision + 1]

RegistryEnd ==
    /\ registryLock = "local"
    /\ registry.grant # NoGrant
    /\ registry.lifecycle = "ACTIVE"
    /\ registry' = [registry EXCEPT !.lifecycle = "TERMINAL", !.revision = @ + 1]

\* Another repository's transaction rewrites the file and leaves this grant.
RegistryForeign ==
    /\ registryLock = "foreign"
    /\ registry' = [registry EXCEPT !.revision = @ + 1]

RegistryWrite ==
    /\ registry.revision < MaxRegistryWrites
    /\ MovesLeft
    /\ RegistryCreate \/ RegistryEnd \/ RegistryForeign
    /\ UNCHANGED <<disk, registryLock, edits>>

RegistryRelease ==
    /\ registryLock # Free
    /\ registryLock' = Free
    /\ UNCHANGED <<disk, registry, edits>>

\* The user creates, removes or replaces something in the working tree.
Edit(p, entry) ==
    /\ edits < MaxEdits
    /\ MovesLeft
    /\ edits' = edits + 1
    /\ disk[p] # entry
    /\ disk' = [disk EXCEPT ![p] = entry]
    /\ UNCHANGED <<registry, registryLock>>

World ==
    \/ \E who \in {"local", "foreign"} : RegistryBegin(who)
    \/ RegistryWrite
    \/ RegistryRelease
    \/ \E p \in UserPaths, kind \in {"file", "missing"} : Edit(p, [kind |-> kind, place |-> NoPath])

---------------------------------------------------------------------------
(* The judgement of a grant                                                *)

\* authority-service.ts puts a "/" before the path it holds against the
\* contract's patterns.
matchRootedPath(path, patterns) ==
    \E q \in patterns : matchesPath(<<"/">> \o PathChars[path], q)

\* No link on the way and nothing of .changebudget.
authorityPathIsSafe(path) == disk[path].kind \in {"file", "missing"} /\ path \notin OwnPaths

\* A path is allowed only by a pattern: an empty list allows none here.
PathGranted(rules, path) ==
    /\ path \notin OwnPaths
    /\ matchPathPattern(path, Terms.scope)
    /\ ~matchRootedPath(path, rules.deny)
    /\ matchRootedPath(path, rules.allow)
    /\ authorityPathIsSafe(path)

PermissionsGranted(rules, path) ==
    /\ SensitiveAs[path] \subseteq Terms.permits \cap rules.permits
    /\ disk[path].kind = "missing" => Terms.newFiles /\ rules.newFiles

WithinCeilings(rules, request) ==
    /\ rules.maxFiles # NoLimit /\ rules.maxLines # NoLimit
    /\ request.maxFiles <= Terms.maxFiles /\ request.maxFiles <= rules.maxFiles
    /\ request.maxLines <= Terms.maxLines /\ request.maxLines <= rules.maxLines

\* seen is [state, contract, registry].  The binding covers the contract with
\* its limits and its scope: an amended contract is other work.  late is what the clock says of
\* the grant's term.
authorityUseFails(seen, request, late) ==
    \/ late
    \/ seen.registry.grant = NoGrant
    \/ seen.state.active = NoContract
    \/ seen.registry.grant # Work(seen.state, seen.contract)
    \/ seen.registry.lifecycle # "ACTIVE"
    \/ LET rules == Rules[seen.contract.budget]
       IN \/ ~PathGranted(rules, request.path)
          \/ ~PermissionsGranted(rules, request.path)
          \/ ~WithinCeilings(rules, request)

---------------------------------------------------------------------------
(* The observation, one look at a file or a lock file at a time              *)

Nothing == [state |-> NotRead, contract |-> NotRead, registry |-> NotRead]
NoObservation == [step |-> 0, request |-> NotRead, seen |-> Nothing, fits |-> FALSE,
                  settled |-> FALSE, answer |-> "none"]

Absent(file) == [look |-> "absent", at |-> file]
Pin(file) == [look |-> "pin", at |-> file]
Validate(file) == [look |-> "validate", at |-> file]
Judge == [look |-> "judge", at |-> "all"]

Locks == <<Absent("state"), Absent("registry"), Absent("contract")>>
Validations == <<Validate("state"), Validate("contract"), Validate("registry")>>

\* withAuthorityReadObservation, line by line
Script ==
    <<Absent("state"), Absent("registry"), Pin("state"), Absent("contract"), Pin("contract"),
      Absent("registry"), Pin("registry"), Judge>>
    \o Locks \o Validations \o Locks \o Validations \o Locks

Active == obs.seen.state.active

\* Without an active contract there is no contract file to look at.
LockAbsent(file) ==
    CASE file = "state" -> stateLock = Free /\ registryLock # "local"
      [] file = "registry" -> registryLock = Free
      [] file = "contract" ->
            Active # NoContract => contractLock[Active] = Free /\ registryLock # "local"

FileNow(file) ==
    CASE file = "state" -> state
      [] file = "registry" -> registry
      [] file = "contract" -> IF Active = NoContract THEN NoFile ELSE contract[Active]

\* What opening refuses: no file, a pending audit, a pointer that is not the
\* phase's, a contract that is not active.
Readable(file) ==
    CASE file = "state" -> /\ state.phase # "absent"
                           /\ ~HasPending(state)
                           /\ state.phase = "active" <=> state.active # NoContract
      [] file = "registry" -> TRUE
      [] file = "contract" -> Active # NoContract => contract[Active].status = "active"

\* mutant: the files are not looked at again
Unchanged_Trusted(file) == TRUE
Unchanged(file) == obs.seen[file] = FileNow(file)

LookSucceeds(step) ==
    CASE step.look = "absent" -> LockAbsent(step.at)
      [] step.look = "pin" -> Readable(step.at)
      [] step.look = "validate" -> Unchanged(step.at)
      [] step.look = "judge" -> TRUE

\* Whether the files are, at this moment, what the observation has seen.
AsSeen == \A file \in {"state", "contract", "registry"} : obs.seen[file] = FileNow(file)

Look(step, late) ==
    CASE step.look = "pin" -> [obs EXCEPT !.seen[step.at] = FileNow(step.at)]
      [] step.look = "judge" -> [obs EXCEPT !.fits = ~authorityUseFails(obs.seen, obs.request, late),
                                            !.settled = AsSeen]
      [] OTHER -> obs

Rejected == [NoObservation EXCEPT !.answer = "REJECTED"]
\* mutant: the answer is given while the looks go on
Answer_Open(o) == [o EXCEPT !.answer = IF o.fits THEN "VERIFIED" ELSE "REJECTED"]
Answer(o) == [o EXCEPT !.step = 0, !.answer = IF o.fits THEN "VERIFIED" ELSE "REJECTED"]

verifyGrant(request) == [NoObservation EXCEPT !.step = 1, !.request = request]

Observe ==
    /\ obs.step # 0
    /\ \E late \in BOOLEAN :
           LET step == Script[obs.step]
           IN obs' = IF ~LookSucceeds(step) THEN Rejected
                     ELSE IF obs.step = Len(Script) THEN Answer(Look(step, late))
                     ELSE [Look(step, late) EXCEPT !.step = @ + 1]
    /\ UNCHANGED worldVars

---------------------------------------------------------------------------
(* A lifecycle command finds the state lock held while a local transaction   *)
(* on the registry runs.                                                   *)

LifecycleStep ==
    /\ Next
    /\ registryLock = "local" => stateLock' = stateLock
    /\ Len(state'.audits) > Len(state.audits) => MovesLeft

ObservationInit ==
    /\ disk \in InitialDisks
    /\ registry = [grant |-> NoGrant, lifecycle |-> "NONE", revision |-> 0]
    /\ registryLock = Free
    /\ edits = 0
    /\ obs = NoObservation
=============================================================================
