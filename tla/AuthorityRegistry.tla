-------------------------- MODULE AuthorityRegistry --------------------------
(***************************************************************************)
(* Grants of authority: the service calls that create, revoke and use them *)
(* (authority-service.ts) and the transaction that commits them to the     *)
(* user's one registry file, shared by all repositories (registry.ts).     *)
(*                                                                         *)
(* A call takes the repository's state lock, then the registry lock; the   *)
(* transaction reads the registry under it, decides, replaces the file,    *)
(* reads it back and lets the lock go.  A step that fails after the        *)
(* replacement began leaves the lock for good: the commit is uncertain.    *)
(* A request is what the grant covers or not (fits): operations, paths,    *)
(* capabilities and ceilings are compared with a file system that moves.   *)
(***************************************************************************)
EXTENDS Naturals, Sequences, FiniteSets

CONSTANTS
    Repos,        \* repositories that use this registry
    Grants,       \* grant identifiers
    OneShot,      \* those of mode ONE_SHOT; the others are REUSABLE
    Procs,        \* processes
    Free,         \* a lock file that does not exist
    Left,         \* a lock file nobody will remove
    NoRepo, NoGrant,
    GrantLimit,   \* GRANT_LIMIT
    MaxAudit,     \* MAX_AUDIT_RECORDS
    MaxRevision,  \* bound: contract revisions of a repository
    MaxFaults     \* bound: failed calls and crashes of a behaviour

ASSUME AuthorityAssumption ==
    /\ OneShot \subseteq Grants
    /\ NoRepo \notin Repos
    /\ NoGrant \notin Grants
    /\ Free \notin Procs
    /\ Left \notin Procs
    /\ Free # Left
    /\ GrantLimit \in Nat
    /\ MaxAudit \in Nat
    /\ MaxRevision \in Nat
    /\ MaxFaults \in Nat

VARIABLES
    registry,       \* registry.json: [bound, rows, audit]
    registryLock,   \* owner of registry.json.lock
    stateLock,      \* owner of the repository's state.json.lock, by repository
    reference,      \* repositories with authority-reference.json
    work,           \* the contract revision that governs, by repository
    revision,       \* the latest contract revision, by repository
    expired,        \* grants whose expires_at has passed
    pc, job,        \* the calls
    accepted,       \* the USE_ACCEPTED answers given
    faults          \* failed calls and crashes so far

context == <<stateLock, reference, work, revision>>
vars == <<registry, registryLock, stateLock, reference, work, revision, expired,
          pc, job, accepted, faults>>

PreContract == 0
Works == 0..MaxRevision
Statuses == {"NONE", "ACTIVE", "REVOKED", "CONSUMED"}
Kinds == {"GRANT_CREATED", "GRANT_REVOKED", "GRANT_USE_RECORDED", "GRANT_CONSUMED",
          "GRANT_USE_REJECTED"}
UseKinds == {"GRANT_USE_RECORDED", "GRANT_CONSUMED"}

Row == [status : Statuses, repo : Repos \cup {NoRepo}, work : Works]
Event == [kind : Kinds, grant : Grants]
Registry == [bound : SUBSET Repos, rows : [Grants -> Row], audit : Seq(Event)]

NoRow == [status |-> "NONE", repo |-> NoRepo, work |-> PreContract]
EmptyRegistry == [bound |-> {}, rows |-> [g \in Grants |-> NoRow], audit |-> <<>>]
NoJob == [op |-> "none", repo |-> NoRepo, grant |-> NoGrant, work |-> PreContract,
          read |-> EmptyRegistry, error |-> "none"]

Init ==
    /\ registry = EmptyRegistry
    /\ registryLock = Free
    /\ stateLock = [r \in Repos |-> Free]
    /\ reference = {}
    /\ work = [r \in Repos |-> PreContract]
    /\ revision = [r \in Repos |-> 0]
    /\ expired = {}
    /\ pc = [p \in Procs |-> "idle"]
    /\ job = [p \in Procs |-> NoJob]
    /\ accepted = {}
    /\ faults = 0

Goto(p, place, locals) ==
    /\ pc' = [pc EXCEPT ![p] = place]
    /\ job' = [job EXCEPT ![p] = locals]

\* A call that ends or fails leaves the repository's state lock behind it free.
DropStateLock(p) ==
    stateLock' = [r \in Repos |-> IF stateLock[r] = p THEN Free ELSE stateLock[r]]

Return(p) ==
    /\ Goto(p, "idle", NoJob)
    /\ DropStateLock(p)

-----------------------------------------------------------------------------
(* What a transaction may commit.                                          *)

Existing(reg) == {g \in Grants : reg.rows[g].status # "NONE"}
BelowLimit(reg) == Cardinality(Existing(reg)) < GrantLimit

\* The grant is ACTIVE (CONSUMED by this use, at the acknowledgement), within
\* its validity, and its work is the one that governs; work without a contract
\* covers no path.
Usable(reg, g, expected) ==
    LET row == reg.rows[g]
    IN  /\ row.work = work[row.repo]
        /\ row.status = expected
        /\ g \notin expired
        /\ row.work # PreContract

UseKind_Always(g) == "GRANT_USE_RECORDED"
UseKind(g) == IF g \in OneShot THEN "GRANT_CONSUMED" ELSE "GRANT_USE_RECORDED"

Kind(j) ==
    CASE j.op = "create" -> "GRANT_CREATED"
      [] j.op = "revoke" -> "GRANT_REVOKED"
      [] j.op = "use" -> UseKind(j.grant)
      [] OTHER -> "GRANT_USE_REJECTED"

\* The next snapshot: the rows the mutation changes, and its audit event.
Proposed(j, reg) ==
    LET g == j.grant
        row == CASE j.op = "create" -> [status |-> "ACTIVE", repo |-> j.repo, work |-> j.work]
                 [] j.op = "revoke" -> [reg.rows[g] EXCEPT !.status = "REVOKED"]
                 [] j.op = "use" /\ g \in OneShot -> [reg.rows[g] EXCEPT !.status = "CONSUMED"]
                 [] OTHER -> reg.rows[g]
    IN  [bound |-> IF j.op = "create" THEN reg.bound \cup {j.repo} ELSE reg.bound,
         rows |-> [reg.rows EXCEPT ![g] = row],
         audit |-> Append(reg.audit, [kind |-> Kind(j), grant |-> g])]

\* What the operation requires of the registry under the lock, again right
\* before the replacement.
Applies(j, reg) ==
    CASE j.op = "create" -> /\ j.grant \notin expired
                            /\ j.work = work[j.repo]
                            /\ BelowLimit(reg)
      [] j.op = "revoke" -> /\ reg.rows[j.grant].status = "ACTIVE"
                            /\ reg.rows[j.grant].work = work[j.repo]
      [] j.op = "use" -> Usable(reg, j.grant, "ACTIVE")
      [] OTHER -> j.grant \in Existing(reg)

\* ensureMutationBounded: one row moves along the grant's life, or none.
Bounded(j, reg) ==
    LET old == reg.rows[j.grant].status
        new == Proposed(j, reg).rows[j.grant].status
    IN  <<old, new>> \in CASE j.op = "create" -> {<<"NONE", "ACTIVE">>}
                           [] j.op = "revoke" -> {<<"ACTIVE", "REVOKED">>}
                           [] j.op = "use" /\ j.grant \in OneShot -> {<<"ACTIVE", "CONSUMED">>}
                           [] j.op = "use" /\ j.grant \notin OneShot -> {<<"ACTIVE", "ACTIVE">>}
                           [] OTHER -> {<<s, s>> : s \in Statuses \ {"NONE"}}

\* What the acknowledgement requires of the registry read back.
Acknowledged(j, reg) ==
    /\ reg = Proposed(j, j.read)
    /\ CASE j.op = "create" -> j.grant \notin expired /\ j.work = work[j.repo]
         [] j.op = "revoke" -> reg.rows[j.grant].work = work[j.repo]
         [] j.op = "use" -> Usable(reg, j.grant, IF j.grant \in OneShot THEN "CONSUMED" ELSE "ACTIVE")
         [] OTHER -> TRUE

-----------------------------------------------------------------------------
(* The calls, up to their transaction.                                     *)

Located(r) == r \in reference /\ r \in registry.bound

\* createGrant: a new identifier, not yet expired.
BeginCreate(p) ==
    /\ pc[p] = "idle"
    /\ \E r \in Repos, g \in Grants \ (Existing(registry) \cup expired) :
          /\ \A q \in Procs : job[q].grant # g
          /\ Goto(p, "enter", [NoJob EXCEPT !.op = "create", !.repo = r, !.grant = g])
    /\ UNCHANGED <<registry, registryLock, context, expired, accepted, faults>>

\* revokeGrant and authorizeUse select the grant on a copy read without locks.
BeginOnGrant(p, op) ==
    /\ pc[p] = "idle"
    /\ \E g \in Existing(registry) :
          /\ Located(registry.rows[g].repo)
          /\ Goto(p, "enter", [NoJob EXCEPT !.op = op, !.repo = registry.rows[g].repo, !.grant = g])
    /\ UNCHANGED <<registry, registryLock, context, expired, accepted, faults>>

BeginRevoke(p) == BeginOnGrant(p, "revoke")
BeginUse(p) == BeginOnGrant(p, "use")

\* withWorkContextCandidate: the state lock, and the context under it.
Enter(p) ==
    LET r == job[p].repo
    IN  /\ pc[p] = "enter"
        /\ stateLock[r] = Free
        /\ stateLock' = [stateLock EXCEPT ![r] = p]
        /\ Goto(p, CASE job[p].op = "create" -> "locate"
                     [] job[p].op = "revoke" -> "recheck"
                     [] OTHER -> "lock",
                [job[p] EXCEPT !.work = work[r]])
        /\ UNCHANGED <<registry, registryLock, reference, work, revision, expired, accepted, faults>>

\* A use that could not be decided is recorded as rejected, state lock or not.
Reject(p) ==
    Goto(p, "lock", [job[p] EXCEPT !.op = "reject", !.read = EmptyRegistry, !.error = "none"])

\* The state lock is held, a lifecycle record is pending or the context is
\* incoherent.
EnterFails(p) ==
    /\ pc[p] = "enter"
    /\ IF job[p].op = "use" THEN Reject(p) ELSE Goto(p, "idle", NoJob)
    /\ UNCHANGED <<registry, registryLock, context, expired, accepted, faults>>

\* A locator and its registry binding go together; a locator alone is inert
\* and never bound again.
Locatable(j) ==
    /\ j.repo \in reference <=> j.repo \in registry.bound
    /\ j.grant \notin expired

\* The locator left to be written when the grant is there.
Locate_Later(p) ==
    /\ pc[p] = "locate"
    /\ Locatable(job[p])
    /\ BelowLimit(registry)
    /\ Goto(p, "lock", job[p])
    /\ UNCHANGED <<registry, registryLock, context, expired, accepted, faults>>

\* The first grant of a repository writes its public locator.
Locate(p) ==
    /\ pc[p] = "locate"
    /\ Locatable(job[p])
    /\ BelowLimit(registry)
    /\ reference' = reference \cup {job[p].repo}
    /\ Goto(p, "lock", job[p])
    /\ UNCHANGED <<registry, registryLock, stateLock, work, revision, expired, accepted, faults>>

\* The limit is looked at after the locator is written.
LocateRefused(p) ==
    /\ pc[p] = "locate"
    /\ ~(Locatable(job[p]) /\ BelowLimit(registry))
    /\ reference' = IF Locatable(job[p]) THEN reference \cup {job[p].repo} ELSE reference
    /\ Return(p)
    /\ UNCHANGED <<registry, registryLock, work, revision, expired, accepted, faults>>

\* revokeGrant looks again, now under the state lock.
Recheck(p) ==
    /\ pc[p] = "recheck"
    /\ Located(job[p].repo)
    /\ Applies(job[p], registry)
    /\ Goto(p, "lock", job[p])
    /\ UNCHANGED <<registry, registryLock, context, expired, accepted, faults>>

RecheckRefused(p) ==
    /\ pc[p] = "recheck"
    /\ ~(Located(job[p].repo) /\ Applies(job[p], registry))
    /\ Return(p)
    /\ UNCHANGED <<registry, registryLock, reference, work, revision, expired, accepted, faults>>

-----------------------------------------------------------------------------
(* transactAuthorityRegistry.                                              *)

\* The file opened for writing whether it exists or not.
MayLock_Anyway == TRUE
\* A lock without a living owner taken over.
MayLock_Reclaims == registryLock \in {Free, Left}
\* acquireLock: open('wx').
MayLock == registryLock = Free

TakeLock(p) ==
    /\ pc[p] = "lock"
    /\ MayLock
    /\ registryLock' = p
    /\ Goto(p, "apply", job[p])
    /\ UNCHANGED <<registry, context, expired, accepted, faults>>

\* Where an error of the transaction leads once the registry lock is settled:
\* a use refused under the lock is recorded as rejected, still inside the state
\* lock; one that could not be decided is recorded after the state lock is let
\* go; every other error reaches the caller.
AfterError(p, error) ==
    IF job[p].op = "use" /\ error = "precondition"
    THEN /\ Reject(p)
         /\ UNCHANGED stateLock
    ELSE IF job[p].op = "use" /\ error \in {"LOCK_BUSY", "LOCK_OWNERSHIP_UNCERTAIN", "CORRUPT"}
    THEN /\ Reject(p)
         /\ DropStateLock(p)
    ELSE Return(p)

\* The lock waited for.
LockBusy_Waits(p) ==
    /\ pc[p] = "lock"
    /\ ~MayLock
    /\ UNCHANGED vars

\* LOCK_BUSY: nobody waits, and a lock left behind is not reclaimed.
LockBusy(p) ==
    /\ pc[p] = "lock"
    /\ ~MayLock
    /\ AfterError(p, "LOCK_BUSY")
    /\ UNCHANGED <<registry, registryLock, reference, work, revision, expired, accepted, faults>>

\* The registry is read under the lock and the mutation applied to the copy.
\* (The snapshot that results is validated before it is written: SnapshotValid
\* says that this never refuses.)
HasRoom_OffByOne(reg) == Len(reg.audit) <= MaxAudit
HasRoom(reg) == Len(reg.audit) < MaxAudit

Apply(p) ==
    /\ pc[p] = "apply"
    /\ HasRoom(registry)
    /\ Applies(job[p], registry)
    /\ Bounded(job[p], registry)
    /\ Goto(p, "replace", [job[p] EXCEPT !.read = registry])
    /\ UNCHANGED <<registry, registryLock, context, expired, accepted, faults>>

\* No capacity, the operation does not apply, or a use is not covered.
ApplyRefused(p) ==
    /\ pc[p] = "apply"
    /\ \E fits \in IF job[p].op = "use" THEN BOOLEAN ELSE {TRUE} :
          LET error == IF ~HasRoom(registry) THEN "CORRUPT"
                       ELSE IF ~(fits /\ Applies(job[p], registry)) THEN "precondition"
                       ELSE IF ~Bounded(job[p], registry) THEN "CORRUPT"
                       ELSE "none"
          IN  /\ error # "none"
              /\ Goto(p, "abort", [job[p] EXCEPT !.error = error])
    /\ UNCHANGED <<registry, registryLock, context, expired, accepted, faults>>

\* Decided on the copy and never looked at again.
Replace_Unchecked(p) ==
    /\ pc[p] = "replace"
    /\ registry' = Proposed(job[p], job[p].read)
    /\ Goto(p, "ack", job[p])
    /\ UNCHANGED <<registryLock, context, expired, accepted, faults>>

\* validateBeforeReplace and the rename of the synced temporary file.
Replace(p) ==
    /\ pc[p] = "replace"
    /\ Applies(job[p], job[p].read)
    /\ registry' = Proposed(job[p], job[p].read)
    /\ Goto(p, "ack", job[p])
    /\ UNCHANGED <<registryLock, context, expired, accepted, faults>>

ReplaceRefused(p) ==
    /\ pc[p] = "replace"
    /\ job[p].op = "use" \/ ~Applies(job[p], job[p].read)
    /\ Goto(p, "abort", [job[p] EXCEPT !.error = "precondition"])
    /\ UNCHANGED <<registry, registryLock, context, expired, accepted, faults>>

\* Directory sync, readback, validateBeforeAck.
Acknowledge(p) ==
    /\ pc[p] = "ack"
    /\ Acknowledged(job[p], registry)
    /\ Goto(p, "release", job[p])
    /\ UNCHANGED <<registry, registryLock, context, expired, accepted, faults>>

\* COMMIT_UNCERTAIN: the lock stays, the error reaches the caller.
LeaveLock(p) ==
    /\ registryLock' = IF registryLock = p THEN Left ELSE registryLock
    /\ Return(p)

CommitUncertain(p) ==
    /\ pc[p] = "ack"
    /\ job[p].op = "use" \/ ~Acknowledged(job[p], registry)
    /\ LeaveLock(p)
    /\ UNCHANGED <<registry, reference, work, revision, expired, accepted, faults>>

\* releaseOwnedLock, and the answer: a use is accepted with its event.
Answer(p) ==
    IF job[p].op = "use"
    THEN {[grant |-> job[p].grant, revision |-> Len(job[p].read.audit) + 1, by |-> p]}
    ELSE {}

Release(p) ==
    /\ pc[p] = "release"
    /\ registryLock' = IF registryLock = p THEN Free ELSE registryLock
    /\ accepted' = accepted \cup Answer(p)
    /\ Return(p)
    /\ UNCHANGED <<registry, reference, work, revision, expired, faults>>

\* An error before the replacement: the lock is released, then the error goes on.
Abort(p) ==
    /\ pc[p] = "abort"
    /\ registryLock' = IF registryLock = p THEN Free ELSE registryLock
    /\ AfterError(p, job[p].error)
    /\ UNCHANGED <<registry, reference, work, revision, expired, accepted, faults>>

-----------------------------------------------------------------------------
(* Calls that fail and processes that die.                                 *)

Fault ==
    /\ faults < MaxFaults
    /\ faults' = faults + 1

\* The locator is visible but its persistence is not confirmed.
LocateFails(p) ==
    /\ Fault
    /\ pc[p] = "locate"
    /\ Locatable(job[p])
    /\ reference' = reference \cup {job[p].repo}
    /\ Return(p)
    /\ UNCHANGED <<registry, registryLock, work, revision, expired, accepted>>

\* The lock file could not be created, or was created and not filled or synced:
\* then it is retained.
LockFails(p) ==
    /\ Fault
    /\ pc[p] = "lock"
    /\ MayLock
    /\ \E error \in {"PERSISTENCE_FAILED", "LOCK_OWNERSHIP_UNCERTAIN"} :
          /\ registryLock' = IF error = "LOCK_OWNERSHIP_UNCERTAIN" THEN Left ELSE registryLock
          /\ AfterError(p, error)
    /\ UNCHANGED <<registry, reference, work, revision, expired, accepted>>

\* The registry could not be read, the context refreshed, or the temporary file
\* written and synced.
PersistFails(p) ==
    /\ Fault
    /\ pc[p] \in {"apply", "replace"}
    /\ Goto(p, "abort", [job[p] EXCEPT !.error = "PERSISTENCE_FAILED"])
    /\ UNCHANGED <<registry, registryLock, context, expired, accepted>>

\* An uncertain commit taken for a commit.
CommitFails_Answers(p) ==
    /\ Fault
    /\ pc[p] \in {"replace", "ack"}
    /\ pc[p] = "replace" => Applies(job[p], job[p].read)
    /\ registry' \in {registry} \cup (IF pc[p] = "replace" THEN {Proposed(job[p], job[p].read)} ELSE {})
    /\ accepted' = accepted \cup Answer(p)
    /\ LeaveLock(p)
    /\ UNCHANGED <<reference, work, revision, expired>>

\* The rename failed, with or without its effect, or what followed it did.
CommitFails(p) ==
    /\ Fault
    /\ pc[p] \in {"replace", "ack"}
    /\ pc[p] = "replace" => Applies(job[p], job[p].read)
    /\ registry' \in {registry} \cup (IF pc[p] = "replace" THEN {Proposed(job[p], job[p].read)} ELSE {})
    /\ LeaveLock(p)
    /\ UNCHANGED <<reference, work, revision, expired, accepted>>

\* The lock was not unlinked, or was and the directory could not be synced.
ReleaseFails(p) ==
    /\ Fault
    /\ pc[p] \in {"release", "abort"}
    /\ registryLock = p
    /\ registryLock' \in {Left, Free}
    /\ IF pc[p] = "release" THEN Return(p) ELSE AfterError(p, "LOCK_OWNERSHIP_UNCERTAIN")
    /\ UNCHANGED <<registry, reference, work, revision, expired, accepted>>

Crash(p) ==
    /\ Fault
    /\ pc[p] # "idle"
    /\ registryLock' = IF registryLock = p THEN Left ELSE registryLock
    /\ stateLock' = [r \in Repos |-> IF stateLock[r] = p THEN Left ELSE stateLock[r]]
    /\ Goto(p, "idle", NoJob)
    /\ UNCHANGED <<registry, reference, work, revision, expired, accepted>>

-----------------------------------------------------------------------------
(* Around the calls.                                                       *)

\* START, AMEND or a recorded decision gives the repository a new contract
\* revision, CLOSE none; each runs inside the state lock.
Govern(r) ==
    /\ stateLock[r] = Free
    /\ \/ /\ revision[r] < MaxRevision
          /\ revision' = [revision EXCEPT ![r] = @ + 1]
          /\ work' = [work EXCEPT ![r] = revision[r] + 1]
       \/ /\ work[r] # PreContract
          /\ work' = [work EXCEPT ![r] = PreContract]
          /\ UNCHANGED revision
    /\ UNCHANGED <<registry, registryLock, stateLock, reference, expired, pc, job, accepted, faults>>

Expire(g) ==
    /\ g \notin expired
    /\ expired' = expired \cup {g}
    /\ UNCHANGED <<registry, registryLock, context, pc, job, accepted, faults>>

\* The recover command, on the state lock of a dead process.
RecoverStateLock(r) ==
    /\ stateLock[r] = Left
    /\ stateLock' = [stateLock EXCEPT ![r] = Free]
    /\ UNCHANGED <<registry, registryLock, reference, work, revision, expired, pc, job, accepted, faults>>

Step(p) ==
    \/ Enter(p) \/ EnterFails(p) \/ Locate(p) \/ LocateRefused(p)
    \/ Recheck(p) \/ RecheckRefused(p)
    \/ TakeLock(p) \/ LockBusy(p) \/ Apply(p) \/ ApplyRefused(p)
    \/ Replace(p) \/ ReplaceRefused(p) \/ Acknowledge(p) \/ CommitUncertain(p)
    \/ Release(p) \/ Abort(p)

Fails(p) ==
    \/ LocateFails(p) \/ LockFails(p) \/ PersistFails(p) \/ CommitFails(p)
    \/ ReleaseFails(p) \/ Crash(p)

Next ==
    \/ \E p \in Procs :
          BeginCreate(p) \/ BeginRevoke(p) \/ BeginUse(p) \/ Step(p) \/ Fails(p)
    \/ \E r \in Repos : Govern(r) \/ RecoverStateLock(r)
    \/ \E g \in Grants : Expire(g)

Spec == Init /\ [][Next]_vars

\* A call that runs goes on running; nobody need start one.
FairSpec == Spec /\ \A p \in Procs : WF_vars(Step(p))

-----------------------------------------------------------------------------
(* Properties.                                                             *)

Job == [op : {"none", "create", "revoke", "use", "reject"},
        repo : Repos \cup {NoRepo}, grant : Grants \cup {NoGrant}, work : Works,
        read : Registry,
        error : {"none", "precondition", "CORRUPT", "PERSISTENCE_FAILED"}]

\* Shapes; no answer names a revision beyond MAX_AUDIT_RECORDS.
TypeOK ==
    /\ registry \in Registry
    /\ registryLock \in Procs \cup {Free, Left}
    /\ stateLock \in [Repos -> Procs \cup {Free, Left}]
    /\ reference \subseteq Repos
    /\ work \in [Repos -> Works]
    /\ revision \in [Repos -> Works]
    /\ expired \subseteq Grants
    /\ pc \in [Procs -> {"idle", "enter", "locate", "recheck", "lock", "apply",
                         "replace", "ack", "release", "abort"}]
    /\ job \in [Procs -> Job]
    /\ accepted \subseteq [grant : Grants, revision : 1..MaxAudit, by : Procs]
    /\ faults \in 0..MaxFaults

\* USE_ACCEPTED stands for a durable event of its own, through every failed
\* commit and crash, and a ONE_SHOT grant is accepted once, whoever races for it.
AcceptedOnRecord ==
    /\ \A a \in accepted :
          /\ a.revision \in DOMAIN registry.audit
          /\ registry.audit[a.revision] = [kind |-> UseKind(a.grant), grant |-> a.grant]
    /\ \A a, b \in accepted :
          \/ a.revision = b.revision
          \/ a.grant = b.grant /\ a.grant \in OneShot
          => a = b

\* The registry on disk always passes validateSnapshot, so no sequence of calls,
\* failed ones included, makes it unreadable: within its limits, every grant with
\* its creation, a terminal one with its own terminal event, and no use of a
\* reusable grant recorded after its revocation.
EventsOf(g) == {i \in DOMAIN registry.audit : registry.audit[i].grant = g}
EventOf(g, kind) == {i \in EventsOf(g) : registry.audit[i].kind = kind}

SnapshotValid ==
    /\ Len(registry.audit) <= MaxAudit
    /\ Cardinality(Existing(registry)) <= GrantLimit
    /\ \A g \in Grants :
          LET status == registry.rows[g].status
          IN  /\ EventsOf(g) # {} => status # "NONE"
              /\ status # "NONE" => /\ registry.rows[g].repo \in registry.bound
                                    /\ Cardinality(EventOf(g, "GRANT_CREATED")) = 1
              /\ Cardinality(EventOf(g, "GRANT_REVOKED")) = IF status = "REVOKED" THEN 1 ELSE 0
              /\ Cardinality(EventOf(g, "GRANT_CONSUMED")) = IF status = "CONSUMED" THEN 1 ELSE 0
              /\ EventOf(g, "GRANT_CONSUMED") # {} => g \in OneShot
              /\ EventOf(g, "GRANT_USE_RECORDED") # {} => g \notin OneShot
              /\ \A i \in EventOf(g, "GRANT_USE_RECORDED"), j \in EventOf(g, "GRANT_REVOKED") : i < j

\* A repository with grants has its public locator: a failure in between leaves
\* a locator without a binding, never the other way round.
GrantsLocated ==
    \A g \in Existing(registry) : registry.rows[g].repo \in reference

\* A use enters the record only while the grant is active, unexpired and of the
\* contract revision that governs then, however long ago the call looked.
FreshWhenRecorded ==
    [][\A g \in Grants :
          registry'.audit = Append(registry.audit, [kind |-> UseKind(g), grant |-> g])
              => Usable(registry, g, "ACTIVE")]_vars

\* Once its commit is uncertain the registry is never written again, nor its
\* lock taken: "reconcile the exact snapshot read-only before any new action"
\* (registry.ts:1158).
RetainedLockFreezes ==
    [][registryLock = Left => registryLock' = Left /\ registry' = registry]_vars

\* Calls of several processes and repositories behave as single steps on the
\* grants, in the order of the registry's revisions.
GrantStatus == [g \in Grants |-> registry.rows[g].status]
RecordedUses ==
    {[grant |-> registry.audit[i].grant, revision |-> i] :
        i \in {k \in DOMAIN registry.audit : registry.audit[k].kind \in UseKinds}}

Abstract == INSTANCE AuthorityAbstract WITH
    status <- GrantStatus,
    uses <- RecordedUses,
    Callers <- Procs,
    Revisions <- 1..MaxAudit
RefinesAbstract == Abstract!AbsSpec

\* Every call ends, whatever it finds: locks left behind included, since no lock
\* is waited for.
CallsEnd == \A p \in Procs : pc[p] # "idle" ~> pc[p] = "idle"

=============================================================================
