------------------------------ MODULE Lifecycle ------------------------------
(***************************************************************************)
(* INIT, START, AMEND and CLOSE run by concurrent command processes over   *)
(* the files of LifecycleStore: the state lock, the contract locks, the    *)
(* write-ahead audit, its recovery, writes that fail and processes that    *)
(* die between two writes.                                                 *)
(*                                                                         *)
(* One action is one durable file operation (or the read that decides it). *)
(* pc[p] names the code about to run; job[p] is the command's locals.      *)
(***************************************************************************)
EXTENDS LifecycleStore

CONSTANTS
    Procs,        \* command processes
    Free,         \* a lock file that does not exist
    Stale,        \* a lock file whose owner has died
    MaxAudits,    \* bound: a settled repository with this history stays as is
    MaxFaults     \* bound: failed writes and crashes of a behaviour

ASSUME ProcessAssumption ==
    /\ Free \notin Procs
    /\ Stale \notin Procs
    /\ Free # Stale
    /\ MaxAudits \in Nat
    /\ MaxFaults \in Nat

VARIABLES
    state,          \* .changebudget/state.json
    contract,       \* contracts/<id>.json, by id
    baseline,       \* whether baselines/<id>.json exists, by id
    stateLock,      \* owner of state.json.lock
    contractLock,   \* owner of contracts/<id>.json.lock, by id
    pc, job,        \* the command processes
    faults          \* failed writes and crashes so far

files == <<state, contract, baseline>>
locks == <<stateLock, contractLock>>
vars == <<state, contract, baseline, stateLock, contractLock, pc, job, faults>>

\* The try block of START: an error there runs the artifact cleanup.
StartTry == {"startBaseline", "startContract", "startActivate", "startComplete"}
StartCleanup == {"startCatch", "startCatchBaseline", "startCatchAbort"}
\* About to write (or remove) a file; each of these can fail.
Writing == StartTry \cup StartCleanup \cup
           {"resolve", "rejectPersist", "rejectAbort", "startPersist",
            "amendPersist", "amendWrite", "amendComplete", "closePersist",
            "closeWrite", "closeState", "closeComplete", "initWrite",
            "initComplete"}
\* Inside withLifecycleStateLock.
Locked == Writing \cup
          {"recover", "recovered", "recoverUnlock", "locked", "coherence",
           "coherenceDone", "coherent", "amend", "close", "rejectClose", "closeRelease",
           "drop", "unlock"}
PCs == Locked \cup {"idle", "recoverLock", "ready"}

EmptyState == [phase |-> "absent", active |-> NoContract,
               lastClosed |-> NoContract, audits |-> <<>>]

NoJob == [op |-> "none", ask |-> NoBudget, candidate |-> NoContract,
          seen |-> {}, settled |-> {}, held |-> NoContract,
          event |-> 0, snapshot |-> EmptyState]

Init ==
    /\ state = EmptyState
    /\ contract = [c \in Contracts |-> NoFile]
    /\ baseline = [c \in Contracts |-> FALSE]
    /\ stateLock = Free
    /\ contractLock = [c \in Contracts |-> Free]
    /\ pc = [p \in Procs |-> "idle"]
    /\ job = [p \in Procs |-> NoJob]
    /\ faults = 0

-----------------------------------------------------------------------------
(* Helpers.                                                                *)

At(p, label) == pc[p] = label
Goto(p, label) == pc' = [pc EXCEPT ![p] = label]

HasPending(s) == PendingEvents(s) # {}

\* The identifiers no command has used: START generates a fresh UUID.
Unused(c) ==
    /\ contract[c] = NoFile
    /\ ~baseline[c]
    /\ contractLock[c] = Free
    /\ \A e \in DOMAIN state.audits : state.audits[e].contract # c
    /\ \A p \in Procs : job[p].candidate # c

\* The contract the lifecycle pointer names, if any.
Pointed(s) == IF s.phase = "active" THEN s.active
              ELSE IF s.phase = "closed" THEN s.lastClosed ELSE NoContract

\* Opening a lock file with 'wx': succeeds only when there is none.
TakeContractLock(p, c) ==
    /\ contractLock[c] = Free
    /\ contractLock' = [contractLock EXCEPT ![c] = p]

DropContractLock(c) == contractLock' = [contractLock EXCEPT ![c] = Free]

Evidence(r) == AuditOutcome(state, contract, baseline, r)

\* An append nobody waits for.
PersistAudit_NotAwaited(p, r) ==
    /\ state' = state
    /\ job' = [job EXCEPT ![p].event = Len(state.audits) + 1]

\* The append of a pending record to state.json, and its event id.
PersistAudit(p, r) ==
    /\ state' = Append1(state, r)
    /\ job' = [job EXCEPT ![p].event = Len(state.audits) + 1]

\* completeLifecycleAudit: a terminal record is left alone.
CompleteAudit(e) ==
    state' = IF state.audits[e].outcome = "pending"
             THEN Resolve(state, e, "committed") ELSE state

\* abortLifecycleAudit: only a proven no-commit is aborted; anything else is
\* an error that keeps the pending record.
AbortAudit(e) ==
    state' = IF /\ state.audits[e].outcome = "pending"
                /\ Evidence(state.audits[e]) = "not_applied"
             THEN Resolve(state, e, "aborted") ELSE state

-----------------------------------------------------------------------------
(* Every command starts with recoverPendingLifecycleAudits.                *)

\* The unlocked read of state.json that decides whether to recover.
Begin(p, op) ==
    /\ At(p, "idle")
    /\ job' = [job EXCEPT ![p] = [NoJob EXCEPT !.op = op,
                                  !.seen = PendingEvents(state)]]
    /\ Goto(p, IF HasPending(state) THEN "recoverLock" ELSE "ready")
    /\ UNCHANGED <<files, locks, faults>>

\* Bounds: the history, with the records the running commands may append, stays
\* within MaxAudits, and no more STARTs run than there are identifiers for.
Appending ==
    {p \in Procs : /\ job[p].op \notin {"none", "init"}
                   /\ job[p].event = 0 \/ job[p].snapshot = EmptyState}
Room == Len(state.audits) + Cardinality(Appending) < MaxAudits
Candidates == {c \in Contracts : Unused(c)}
Starting == {p \in Procs : job[p].op = "start" /\ job[p].candidate = NoContract}

BeginInit(p) == Begin(p, "init")
BeginStart(p) ==
    /\ Room
    /\ Cardinality(Candidates) > Cardinality(Starting)
    /\ Begin(p, "start")
BeginAmend(p) == Room /\ Begin(p, "amend")
BeginClose(p) == Room /\ Begin(p, "close")

\* acquireLifecycleStateLock: the lock is not waited for.
AcquireStateLock(p) ==
    /\ pc[p] \in {"recoverLock", "ready"}
    /\ stateLock = Free
    /\ stateLock' = p
    /\ Goto(p, IF At(p, "ready") THEN "locked" ELSE "recover")
    /\ UNCHANGED <<files, contractLock, job, faults>>

\* Contention: the command reports busy (or recovery required) and exits.
StateLockBusy(p) ==
    /\ pc[p] \in {"recoverLock", "ready"}
    /\ stateLock # Free
    /\ Goto(p, "idle")
    /\ job' = [job EXCEPT ![p] = NoJob]
    /\ UNCHANGED <<files, locks, faults>>

\* The first record of the pending list that is not settled yet.
NextSeen(p) == {e \in job[p].seen : \A d \in job[p].seen : e <= d}

\* Each record is looked at under its contract's lock; INIT has no contract.
RecoverNext(p) ==
    \E e \in NextSeen(p) :
        LET c == state.audits[e].contract
        IN  /\ At(p, "recover")
            /\ c # NoContract => contractLock[c] = Free
            /\ contractLock' = IF c = NoContract THEN contractLock
                               ELSE [contractLock EXCEPT ![c] = p]
            /\ job' = [job EXCEPT ![p].held = c, ![p].event = e]
            /\ Goto(p, "resolve")
            /\ UNCHANGED <<files, stateLock, faults>>

\* Re-read under the locks: a terminal record stands, an undecidable one
\* stops the command, any other is resolved as its evidence says.
RecoverResolve(p) ==
    LET e == job[p].event
        r == state.audits[e]
        undecidable == r.outcome = "pending" /\ Evidence(r) = "uncertain"
    IN  /\ At(p, "resolve")
        /\ state' = IF r.outcome # "pending" \/ undecidable THEN state
                    ELSE Resolve(state, e, IF Evidence(r) = "applied"
                                           THEN "reconciled" ELSE "aborted")
        /\ job' = IF undecidable THEN job
                  ELSE [job EXCEPT ![p].seen = @ \ {e}, ![p].settled = @ \cup {e}]
        /\ Goto(p, IF undecidable THEN "drop" ELSE "recovered")
        /\ UNCHANGED <<contract, baseline, locks, faults>>

\* Leaving the record's contract lock; the last one leaves the state lock too.
RecoverLeave(p) ==
    LET c == job[p].held
    IN  /\ At(p, "recovered")
        /\ contractLock' = IF c = NoContract THEN contractLock
                           ELSE [contractLock EXCEPT ![c] = Free]
        /\ job' = [job EXCEPT ![p].held = NoContract, ![p].event = 0]
        /\ Goto(p, IF job[p].seen = {} THEN "recoverUnlock" ELSE "recover")
        /\ UNCHANGED <<files, stateLock, faults>>

RecoverUnlock(p) ==
    /\ At(p, "recoverUnlock")
    /\ stateLock' = Free
    /\ Goto(p, "ready")
    /\ UNCHANGED <<files, contractLock, job, faults>>

Recover(p) == RecoverNext(p) \/ RecoverResolve(p) \/ RecoverLeave(p) \/ RecoverUnlock(p)

-----------------------------------------------------------------------------
(* Under the state lock: assertNoPendingAudits, then the command.          *)

\* What the fresh read allows the command to do next.
Branch(p) ==
    CASE job[p].op = "init" -> IF state.phase = "absent" THEN "initWrite" ELSE "unlock"
      [] job[p].op = "start" -> IF Pointed(state) = NoContract THEN "coherent" ELSE "coherence"
      [] job[p].op = "amend" -> IF state.phase = "active" THEN "amend" ELSE "unlock"
      [] OTHER -> CASE state.phase = "active" -> "close"
                    [] state.phase = "closed" -> "rejectClose"
                    [] OTHER -> "unlock"

\* The command's arguments and START's fresh identifier are chosen here, where
\* they begin to matter.
Asks(op) == IF op \in {"start", "amend"} THEN Budgets ELSE {NoBudget}
Fresh(op) == IF op = "start" THEN Candidates ELSE {NoContract}

NoPendingAudits_Trusted == TRUE
\* assertNoPendingAudits, on a read made under the lock.
NoPendingAudits == ~HasPending(state)

Decide(p) ==
    /\ At(p, "locked")
    /\ \E b \in Asks(job[p].op), c \in Fresh(job[p].op) :
          job' = [job EXCEPT ![p].snapshot = state, ![p].ask = b, ![p].candidate = c]
    /\ Goto(p, IF NoPendingAudits THEN Branch(p) ELSE "unlock")
    /\ UNCHANGED <<files, locks, faults>>

\* The contract whose lock the command is about to take, if any.
Wanted(p) ==
    CASE pc[p] \in {"coherence", "amend", "close", "rejectClose"} -> {Pointed(state)}
      [] At(p, "coherent") -> {job[p].candidate}
      [] At(p, "recover") -> {state.audits[e].contract : e \in NextSeen(p)}
      [] OTHER -> {}

\* A contract lock that is waited for.
ContractLockBusy_Waits(p) == FALSE

\* 'wx' on an existing contract lock: the command fails.
ContractLockBusy(p) ==
    /\ \E c \in Wanted(p) \cap Contracts : contractLock[c] # Free
    /\ Goto(p, "unlock")
    /\ UNCHANGED <<files, locks, job, faults>>

\* Enter a contract lock and read the contract; ok is what the read must show.
EnterContract(p, c, ok, next) ==
    /\ c # NoContract
    /\ TakeContractLock(p, c)
    /\ job' = [job EXCEPT ![p].held = c]
    /\ Goto(p, IF ok THEN next ELSE "drop")
    /\ UNCHANGED <<files, stateLock, faults>>

\* The error path and the normal exit: contract lock, then state lock.
Drop(p) ==
    /\ At(p, "drop")
    /\ contractLock' = IF job[p].held = NoContract THEN contractLock
                       ELSE [contractLock EXCEPT ![job[p].held] = Free]
    /\ job' = [job EXCEPT ![p].held = NoContract]
    /\ Goto(p, "unlock")
    /\ UNCHANGED <<files, stateLock, faults>>

Unlock(p) ==
    /\ At(p, "unlock")
    /\ stateLock' = Free
    /\ Goto(p, "idle")
    /\ job' = [job EXCEPT ![p] = NoJob]
    /\ UNCHANGED <<files, contractLock, faults>>

-----------------------------------------------------------------------------
(* INIT: the record is written pending with the new state, then completed. *)

Initialized_NotYet(s) == [s EXCEPT !.phase = "uninitialized"]
\* createInitializedState.
Initialized(s) == [s EXCEPT !.phase = "initialized"]

InitWrite(p) ==
    /\ At(p, "initWrite")
    /\ state' = Append1(Initialized(state),
                        NewAudit("init", NoContract, "absent", "initialized",
                                 NoBudget, NoBudget))
    /\ job' = [job EXCEPT ![p].event = Len(state.audits) + 1]
    /\ Goto(p, "initComplete")
    /\ UNCHANGED <<contract, baseline, locks, faults>>

InitComplete(p) ==
    /\ At(p, "initComplete")
    /\ CompleteAudit(job[p].event)
    /\ Goto(p, "unlock")
    /\ UNCHANGED <<contract, baseline, locks, job, faults>>

-----------------------------------------------------------------------------
(* An attempt that is rejected leaves an aborted record: a START while a    *)
(* contract is active, a CLOSE when the lifecycle is already closed.        *)

RejectedAudit(p) ==
    LET c == job[p].held
        b == contract[c].budget
    IN  IF job[p].op = "start"
        THEN NewAudit("start", c, state.phase, state.phase, NoBudget, job[p].ask)
        ELSE NewAudit("close", c, "closed", "closed", b, b)

RejectPersist(p) ==
    /\ At(p, "rejectPersist")
    /\ PersistAudit(p, RejectedAudit(p))
    /\ Goto(p, "rejectAbort")
    /\ UNCHANGED <<contract, baseline, locks, faults>>

RejectAbort(p) ==
    /\ At(p, "rejectAbort")
    /\ AbortAudit(job[p].event)
    /\ Goto(p, "drop")
    /\ UNCHANGED <<contract, baseline, locks, job, faults>>

Reject(p) == RejectPersist(p) \/ RejectAbort(p)

-----------------------------------------------------------------------------
(* START.  The baseline is captured before the lock is taken.              *)

\* assertLifecyclePointerCoherent, under the pointed contract's own lock.
StartCoherence(p) ==
    /\ At(p, "coherence")
    /\ EnterContract(p, Pointed(state),
                     contract[Pointed(state)].status = state.phase, "coherenceDone")

StartCoherenceDone(p) ==
    /\ At(p, "coherenceDone")
    /\ DropContractLock(job[p].held)
    /\ job' = [job EXCEPT ![p].held = NoContract]
    /\ Goto(p, "coherent")
    /\ UNCHANGED <<files, stateLock, faults>>

\* The same request, already completed by recovery: returned as this START's.
ReplaysRecoveredStart(p) ==
    /\ state.phase = "active"
    /\ contract[state.active].budget = job[p].ask
    /\ \E e \in job[p].settled :
          /\ state.audits[e].op = "start"
          /\ state.audits[e].outcome = "reconciled"
          /\ state.audits[e].contract = state.active

ArtifactsAbsent(c) == contract[c] = NoFile /\ ~baseline[c]

\* assertCanStart decides; the candidate's lock guards what is written next.
StartAdmit(p) ==
    /\ At(p, "coherent")
    /\ state.phase \in {"initialized", "closed"}
    /\ EnterContract(p, job[p].candidate, ArtifactsAbsent(job[p].candidate), "startPersist")

StartLose(p) ==
    /\ At(p, "coherent")
    /\ state.phase = "active"
    /\ ~ReplaysRecoveredStart(p)
    /\ EnterContract(p, job[p].candidate, ArtifactsAbsent(job[p].candidate), "rejectPersist")

\* Replayed, or nothing initialized: nothing is written.
StartReturn(p) ==
    /\ At(p, "coherent")
    /\ state.phase = "absent" \/ ReplaysRecoveredStart(p)
    /\ Goto(p, "unlock")
    /\ UNCHANGED <<files, locks, job, faults>>

StartPersist(p) ==
    /\ At(p, "startPersist")
    /\ PersistAudit(p, NewAudit("start", job[p].candidate, state.phase, "active",
                                NoBudget, job[p].ask))
    /\ Goto(p, "startBaseline")
    /\ UNCHANGED <<contract, baseline, locks, faults>>

StartBaseline(p) ==
    /\ At(p, "startBaseline")
    /\ baseline' = [baseline EXCEPT ![job[p].candidate] = TRUE]
    /\ Goto(p, "startContract")
    /\ UNCHANGED <<state, contract, locks, job, faults>>

StartContract(p) ==
    /\ At(p, "startContract")
    /\ contract' = [contract EXCEPT ![job[p].candidate] =
                       [status |-> "active", budget |-> job[p].ask]]
    /\ Goto(p, "startActivate")
    /\ UNCHANGED <<state, baseline, locks, job, faults>>

\* activateBaseline: the pointer moves on the copy of the state read before
\* the audit was appended, if that copy still names the current pointer.
StartActivate(p) ==
    LET c == job[p].candidate
        expected == job[p].snapshot
        ready == /\ SamePointer(state, expected)
                 /\ baseline[c]
                 /\ contract[c].status = "active"
    IN  /\ At(p, "startActivate")
        /\ state' = IF ready THEN WriteOver(state, ToActive(expected, c)) ELSE state
        /\ Goto(p, IF ready THEN "startComplete" ELSE "startCatch")
        /\ UNCHANGED <<contract, baseline, locks, job, faults>>

StartComplete(p) ==
    /\ At(p, "startComplete")
    /\ CompleteAudit(job[p].event)
    /\ Goto(p, "drop")
    /\ UNCHANGED <<contract, baseline, locks, job, faults>>

\* Cleanup that forgets to look at the pointer.
MayRemoveArtifacts_Always(c) == TRUE
\* The artifacts are this candidate's own and no pointer refers to them.
MayRemoveArtifacts(c) == state.active # c /\ state.lastClosed # c

StartCatch(p) ==
    LET c == job[p].candidate
    IN  /\ At(p, "startCatch")
        /\ contract' = IF MayRemoveArtifacts(c)
                       THEN [contract EXCEPT ![c] = NoFile] ELSE contract
        /\ Goto(p, IF MayRemoveArtifacts(c) THEN "startCatchBaseline" ELSE "drop")
        /\ UNCHANGED <<state, baseline, locks, job, faults>>

StartCatchBaseline(p) ==
    /\ At(p, "startCatchBaseline")
    /\ baseline' = [baseline EXCEPT ![job[p].candidate] = FALSE]
    /\ Goto(p, "startCatchAbort")
    /\ UNCHANGED <<state, contract, locks, job, faults>>

StartCatchAbort(p) ==
    /\ At(p, "startCatchAbort")
    /\ AbortAudit(job[p].event)
    /\ Goto(p, "drop")
    /\ UNCHANGED <<contract, baseline, locks, job, faults>>

Start(p) ==
    \/ StartCoherence(p) \/ StartCoherenceDone(p)
    \/ StartAdmit(p) \/ StartLose(p) \/ StartReturn(p)
    \/ StartPersist(p) \/ StartBaseline(p) \/ StartContract(p)
    \/ StartActivate(p) \/ StartComplete(p)
    \/ StartCatch(p) \/ StartCatchBaseline(p) \/ StartCatchAbort(p)

-----------------------------------------------------------------------------
(* AMEND.  One contract lock covers the audit, the write and completion.    *)

ReplaysRecoveredAmend(p) ==
    \E e \in job[p].settled :
        /\ state.audits[e].op = "amend"
        /\ state.audits[e].outcome = "reconciled"
        /\ state.audits[e].contract = state.active
        /\ state.audits[e].after = job[p].ask
        /\ contract[state.active].budget = job[p].ask

\* A replay returns the contract; an amendment that changes nothing is refused.
AmendEnter(p) ==
    LET c == Pointed(state)
        changes == contract[c].budget # job[p].ask
    IN  /\ At(p, "amend")
        /\ EnterContract(p, c, /\ contract[c].status = "active"
                               /\ ~ReplaysRecoveredAmend(p)
                               /\ changes, "amendPersist")

AmendPersist(p) ==
    LET c == job[p].held
    IN  /\ At(p, "amendPersist")
        /\ PersistAudit(p, NewAudit("amend", c, "active", "active",
                                    contract[c].budget, job[p].ask))
        /\ Goto(p, "amendWrite")
        /\ UNCHANGED <<contract, baseline, locks, faults>>

AmendWrite(p) ==
    /\ At(p, "amendWrite")
    /\ contract' = [contract EXCEPT ![job[p].held].budget = job[p].ask]
    /\ Goto(p, "amendComplete")
    /\ UNCHANGED <<state, baseline, locks, job, faults>>

AmendComplete(p) ==
    /\ At(p, "amendComplete")
    /\ CompleteAudit(job[p].event)
    /\ Goto(p, "drop")
    /\ UNCHANGED <<contract, baseline, locks, job, faults>>

Amend(p) == AmendEnter(p) \/ AmendPersist(p) \/ AmendWrite(p) \/ AmendComplete(p)

-----------------------------------------------------------------------------
(* CLOSE.  The contract lock is left between the contract's write and the   *)
(* state's: closeContractInPlace returns before the pointer moves.          *)

CloseEnter(p) ==
    /\ At(p, "close")
    /\ EnterContract(p, Pointed(state),
                     contract[Pointed(state)].status = "active", "closePersist")

CloseReject(p) ==
    /\ At(p, "rejectClose")
    /\ EnterContract(p, Pointed(state),
                     contract[Pointed(state)].status = "closed", "rejectPersist")

ClosePersist(p) ==
    LET c == job[p].held
        b == contract[c].budget
    IN  /\ At(p, "closePersist")
        /\ PersistAudit(p, NewAudit("close", c, "active", "closed", b, b))
        /\ Goto(p, "closeWrite")
        /\ UNCHANGED <<contract, baseline, locks, faults>>

CloseWrite(p) ==
    /\ At(p, "closeWrite")
    /\ contract' = [contract EXCEPT ![job[p].held].status = "closed"]
    /\ Goto(p, "closeRelease")
    /\ UNCHANGED <<state, baseline, locks, job, faults>>

CloseRelease(p) ==
    /\ At(p, "closeRelease")
    /\ DropContractLock(job[p].held)
    /\ job' = [job EXCEPT ![p].held = NoContract]
    /\ Goto(p, "closeState")
    /\ UNCHANGED <<files, stateLock, faults>>

CloseState(p) ==
    /\ At(p, "closeState")
    /\ state' = WriteOver(state, ToClosed(job[p].snapshot))
    /\ Goto(p, "closeComplete")
    /\ UNCHANGED <<contract, baseline, locks, job, faults>>

CloseComplete(p) ==
    /\ At(p, "closeComplete")
    /\ CompleteAudit(job[p].event)
    /\ Goto(p, "unlock")
    /\ UNCHANGED <<contract, baseline, locks, job, faults>>

Close(p) ==
    \/ CloseEnter(p) \/ CloseReject(p) \/ ClosePersist(p) \/ CloseWrite(p)
    \/ CloseRelease(p) \/ CloseState(p) \/ CloseComplete(p)

-----------------------------------------------------------------------------
(* Faults.                                                                 *)

\* A write or removal throws and leaves its file as it was; START's try block
\* catches it, every other path unwinds through the locks.
WriteFails(p) ==
    /\ pc[p] \in Writing
    /\ faults < MaxFaults
    /\ faults' = faults + 1
    /\ Goto(p, IF pc[p] \in StartTry THEN "startCatch" ELSE "drop")
    /\ UNCHANGED <<files, locks, job>>

\* The process dies: its lock files stay.
Crash(p) ==
    /\ pc[p] # "idle"
    /\ faults < MaxFaults
    /\ faults' = faults + 1
    /\ stateLock' = IF stateLock = p THEN Stale ELSE stateLock
    /\ contractLock' = [c \in Contracts |-> IF contractLock[c] = p THEN Stale
                                            ELSE contractLock[c]]
    /\ Goto(p, "idle")
    /\ job' = [job EXCEPT ![p] = NoJob]
    /\ UNCHANGED files

\* Recovery that takes any lock it finds.
OwnerDead_NotAsked == stateLock # Free
OwnerDead == stateLock = Stale

\* `changebudget recover lifecycle-lock` on a lock whose owner is dead.  There
\* is no such command for a contract lock.
RecoverStateLock ==
    /\ OwnerDead
    /\ stateLock' = Free
    /\ UNCHANGED <<files, contractLock, pc, job, faults>>

-----------------------------------------------------------------------------

Commands(p) == BeginInit(p) \/ BeginStart(p) \/ BeginAmend(p) \/ BeginClose(p)

Step(p) ==
    \/ AcquireStateLock(p) \/ StateLockBusy(p) \/ Recover(p)
    \/ Decide(p) \/ ContractLockBusy(p) \/ Drop(p) \/ Unlock(p)
    \/ InitWrite(p) \/ InitComplete(p)
    \/ Reject(p) \/ Start(p) \/ Amend(p) \/ Close(p)

Fault(p) == WriteFails(p) \/ Crash(p)

Next ==
    \/ \E p \in Procs : Commands(p) \/ Step(p) \/ Fault(p)
    \/ RecoverStateLock

Spec == Init /\ [][Next]_vars

\* A started command runs on unless it dies, and the operator eventually
\* recovers a dead owner's lock and runs some command again.
Fairness ==
    /\ \A p \in Procs : WF_vars(Step(p))
    /\ \A p \in Procs : WF_vars(BeginInit(p))
    /\ WF_vars(RecoverStateLock)

FairSpec == Spec /\ Fairness

\* The operator runs CLOSE again, as the error message asks.
RetrySpec ==
    /\ FairSpec
    /\ \A p \in Procs : SF_vars(BeginClose(p)) /\ SF_vars(BeginStart(p))

-----------------------------------------------------------------------------
(* Properties.                                                             *)

JobRecord == [op : Operations \cup {"none"}, ask : BudgetRef,
              candidate : ContractRef, seen : SUBSET Nat, settled : SUBSET Nat,
              held : ContractRef, event : Nat, snapshot : StateFile]

\* Every file, lock and local has the shape the code gives it.
TypeOK ==
    /\ state \in StateFile
    /\ contract \in [Contracts -> ContractFile]
    /\ baseline \in [Contracts -> BOOLEAN]
    /\ stateLock \in Procs \cup {Free, Stale}
    /\ contractLock \in [Contracts -> Procs \cup {Free, Stale}]
    /\ pc \in [Procs -> PCs]
    /\ job \in [Procs -> JobRecord]
    /\ faults \in Nat

\* The commands inside withLifecycleStateLock are the owner of the lock, so
\* there is never more than one, whatever dies or is recovered.
StateLockExcludes == \A p \in Procs : pc[p] \in Locked <=> stateLock = p

\* assertNoPendingAudits: a command appends its record only to a settled
\* history, so recovery never has two outcomes to tell apart.
AtMostOnePending == Cardinality(PendingEvents(state)) <= 1

\* The history alone, its uncommitted attempts left out, tells what the files
\* hold: the pointers, every contract's status and scope, every baseline.
ReplayStep(view, r) ==
    IF r.outcome \in {"pending", "aborted"} THEN view
    ELSE CASE r.op = "init" -> [view EXCEPT !.phase = "initialized"]
           [] r.op = "start" ->
                 [view EXCEPT !.phase = "active", !.active = r.contract,
                              !.files[r.contract] = [status |-> "active", budget |-> r.after]]
           [] r.op = "amend" -> [view EXCEPT !.files[r.contract].budget = r.after]
           [] r.op = "close" ->
                 [view EXCEPT !.phase = "closed", !.active = NoContract,
                              !.lastClosed = r.contract,
                              !.files[r.contract].status = "closed"]

Replay(history) ==
    LET fresh == [phase |-> "absent", active |-> NoContract,
                  lastClosed |-> NoContract,
                  files |-> [c \in Contracts |-> NoFile]]
        view[n \in 0..Len(history)] ==
            IF n = 0 THEN fresh ELSE ReplayStep(view[n - 1], history[n])
    IN  view[Len(history)]

\* Whenever no record is pending, replaying the audit history gives exactly
\* the lifecycle files: nothing happened unrecorded and nothing recorded as
\* done was not (START, AMEND and CLOSE with their failures and crashes).
LedgerExplainsFiles ==
    ~HasPending(state) =>
        LET view == Replay(state.audits)
        IN  /\ view.phase = state.phase
            /\ view.active = state.active
            /\ view.lastClosed = state.lastClosed
            /\ view.files = contract
            /\ \A c \in Contracts : baseline[c] <=> contract[c] # NoFile

\* Whenever no record is pending, the pointer names a contract whose file says
\* the same: active under an active pointer, with its baseline, and no other
\* contract file is active.
PointerCoherent ==
    ~HasPending(state) =>
        /\ state.phase = "active" <=> state.active # NoContract
        /\ \A c \in Contracts :
              contract[c].status = "active" <=> state.active = c
        /\ \A c \in Contracts : contract[c].status = "active" => baseline[c]

\* Write-ahead: any change of a contract, a baseline or a pointer happens
\* while a pending record in state.json names the contract it is about.
WriteAhead ==
    [][\A c \in Contracts :
          \/ contract'[c] # contract[c]
          \/ baseline'[c] # baseline[c]
          \/ (state'.active = c) # (state.active = c)
          => \E e \in PendingEvents(state) : state.audits[e].contract = c]_vars

\* No write of state.json, a START's or CLOSE's write of an older copy
\* included, loses an audit record or reopens a terminal one.
AuditHistoryKept ==
    [][/\ Len(state'.audits) >= Len(state.audits)
       /\ \A e \in DOMAIN state.audits :
            LET r == state.audits[e]
                s == state'.audits[e]
            IN  r # s => /\ r.outcome = "pending"
                         /\ [r EXCEPT !.outcome = s.outcome] = s]_vars

\* A contract that has governed keeps its file and its baseline, and a closed
\* one stays closed with the scope it was closed with; START's cleanup after
\* an error removes only what no pointer ever named.
GovernedArtifactsKept ==
    [][\A c \in Contracts :
          /\ Pointed(state) = c \/ state.lastClosed = c
                => contract'[c].status # "absent" /\ (baseline[c] => baseline'[c])
          /\ contract[c].status = "closed" => contract'[c] = contract[c]]_vars

\* CLOSE stopped between its two writes: the pointer names a closed contract.
HalfClosed ==
    /\ state.phase = "active"
    /\ contract[state.active].status = "closed"

\* START stopped after writing a candidate's artifact and before the pointer.
OrphanCandidate ==
    \E e \in PendingEvents(state) :
        LET r == state.audits[e]
        IN  /\ r.op = "start"
            /\ state.active # r.contract
            /\ ~ArtifactsAbsent(r.contract)

\* The contract lock recovery needs was left by a process that died.
RecoveryLockLeft ==
    \E e \in PendingEvents(state) :
        LET c == state.audits[e].contract
        IN  c # NoContract /\ contractLock[c] = Stale

\* Every pending record is eventually terminal, if some command is run again
\* and again and dead state locks are recovered, but for the three ways a
\* fault leaves evidence the code refuses to judge.
PendingSettles ==
    HasPending(state) ~>
        (~HasPending(state) \/ HalfClosed \/ OrphanCandidate \/ RecoveryLockLeft)

\* A CLOSE stopped between its two writes is completed by running it again:
\* what contracts.ts:171 tells the operator and specs/008's guarantees promise.
HalfCloseReconciles == HalfClosed ~> ~HalfClosed

\* An active contract file no pointer names is the leftover of a failed START
\* and START removes it: what specs/008's data-model.md:26 says.
Orphan == \E c \in Contracts : contract[c].status = "active" /\ state.active # c
OrphanContractRemoved == Orphan ~> ~Orphan

\* Every command ends, whatever locks others hold or have left: none waits.
CommandsEnd == \A p \in Procs : pc[p] # "idle" ~> pc[p] = "idle"

\* The lifecycle refines its abstract promise: the pointer's rename is the
\* moment START and CLOSE happen, the contract's rename the moment AMEND does.
Abstract == INSTANCE LifecycleAbstract WITH
    phase <- state.phase,
    governing <- state.active,
    latest <- state.lastClosed,
    ended <- {c \in Contracts : contract[c].status = "closed" /\ state.active # c},
    scope <- [c \in Contracts |->
                 IF contract[c].status = "closed" \/ state.active = c
                 THEN contract[c].budget ELSE NoBudget]

RefinesAbstract == Abstract!AbsSpec

-----------------------------------------------------------------------------
(* The inductive invariant behind StateLockExcludes and PointerCoherent.    *)

\* Decided, nothing appended yet.
BeforeAppend ==
    {"coherence", "coherenceDone", "coherent", "startPersist", "rejectClose",
     "rejectPersist", "amend", "amendPersist", "close", "closePersist"}
\* The command's own record is pending.
Appended ==
    StartTry \cup StartCleanup \cup
    {"rejectAbort", "amendWrite", "amendComplete", "closeWrite",
     "closeRelease", "closeState", "closeComplete", "initComplete"}
\* Appended, and the command has yet to write the copy it read.
HoldsOldCopy ==
    {"startBaseline", "startContract", "startActivate",
     "closeWrite", "closeRelease", "closeState"}

Subject(p) == state.audits[job[p].event].contract

\* The copy of state.json a command carries is the file but for its own record.
CopyCurrent(p) ==
    /\ pc[p] \in BeforeAppend =>
          job[p].snapshot = state /\ PendingEvents(state) = {}
    /\ pc[p] \in HoldsOldCopy =>
          /\ job[p].event = Len(job[p].snapshot.audits) + 1
          /\ state = Append1(job[p].snapshot, state.audits[job[p].event])
          /\ PendingEvents(job[p].snapshot) = {}

\* The record a command works on is where it thinks, and about its contract.
RecordInPlace(p) ==
    /\ pc[p] = "resolve" => job[p].event \in DOMAIN state.audits
    /\ pc[p] \in Appended => job[p].event \in PendingEvents(state)
    /\ pc[p] = "rejectPersist" => job[p].held \in Contracts
    /\ pc[p] = "initComplete" => Subject(p) = NoContract
    /\ pc[p] \in StartTry \cup StartCleanup => Subject(p) = job[p].candidate
    /\ pc[p] \in {"amendWrite", "amendComplete", "closeWrite", "closeRelease"} =>
          Subject(p) = job[p].held
    /\ pc[p] = "closeState" => Subject(p) = state.active
    /\ pc[p] = "closeComplete" => Subject(p) \in Contracts

\* What a command's earlier writes have established.
WritesDone(p) ==
    LET c == job[p].candidate
    IN  /\ pc[p] = "initWrite" => state.phase = "absent"
        /\ pc[p] \in {"startPersist"} \cup StartTry \cup StartCleanup => c \in Contracts
        /\ pc[p] \in {"startPersist", "startBaseline", "startContract", "startActivate"} =>
              state.active = NoContract
        /\ pc[p] \in {"startContract", "startActivate"} => baseline[c]
        /\ pc[p] = "startComplete" => state.active = c /\ contract[c].status = "active"
        /\ pc[p] = "startCatchBaseline" => contract[c].status = "absent"
        /\ pc[p] \in {"amend", "close"} => state.phase = "active"
        /\ pc[p] \in {"amendPersist", "amendWrite", "amendComplete"} =>
              /\ job[p].held \in Contracts
              /\ state.active = job[p].held
              /\ contract[job[p].held].status = "active"
        /\ pc[p] \in {"closePersist", "closeWrite", "closeRelease"} =>
              job[p].held \in Contracts /\ state.active = job[p].held
        /\ pc[p] \in {"closeRelease", "closeState", "closeComplete"} =>
              contract[Subject(p)].status = "closed"
        /\ pc[p] = "closeState" => state.active \in Contracts
        /\ pc[p] = "closeComplete" => state.active = NoContract

\* A contract no pending record names is coherent with the pointer.
Named(c) == \E e \in PendingEvents(state) : state.audits[e].contract = c

FilesCoherent ==
    /\ state.phase = "active" <=> state.active # NoContract
    /\ \A e \in DOMAIN state.audits :
          state.audits[e].op = "init" => state.audits[e].contract = NoContract
    /\ \A c \in Contracts : contract[c].status = "active" => baseline[c]
    /\ \A c \in Contracts :
          Named(c) \/ (contract[c].status = "active" <=> state.active = c)

SeenInHistory == \A p \in Procs : job[p].seen \subseteq DOMAIN state.audits

\* Every conjunct together is kept by every step, which PointerCoherent alone
\* is not: it says nothing while a record is pending.
Inductive ==
    /\ TypeOK
    /\ StateLockExcludes
    /\ SeenInHistory
    /\ FilesCoherent
    /\ \A p \in Procs : CopyCurrent(p) /\ RecordInPlace(p) /\ WritesDone(p)

=============================================================================
