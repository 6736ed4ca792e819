---------------------------- MODULE LockRecovery ----------------------------
(***************************************************************************)
(* The lifecycle state lock as a file: its creation and the owner metadata *)
(* written into it afterwards, its release by the owner, and               *)
(* `changebudget recover lifecycle-lock`, which inspects it twice and       *)
(* removes it.  Lifecycle takes this lock for granted; here it is built.    *)
(*                                                                         *)
(* A process runs one command or one recovery and is gone; a process       *)
(* identifier is never reused.  A file is known by who created it, its     *)
(* device, inode, size and times by the creator and the content.           *)
(***************************************************************************)
EXTENDS Integers, FiniteSets

CONSTANTS
    Procs,          \* processes, each running once
    Unprobeable,    \* those of another user: a probe of a live one is denied
    NoLock          \* a lock file that does not exist

ASSUME LockAssumption == Unprobeable \subseteq Procs

VARIABLES
    lock,           \* .changebudget/state.json.lock
    pc,             \* what each process is about to do
    recovering,     \* the processes that run a recovery
    forced,         \* the recoveries given --force
    observed,       \* the lock each recovery saw first
    sight,          \* the lock its latest inspection read
    verdict,        \* the outcome it is about to record
    records         \* lifecycle-lock-recovery.json: the outcome, by recovery

vars == <<lock, pc, recovering, forced, observed, sight, verdict, records>>
recovery == <<recovering, forced, observed, sight, verdict, records>>

Contents == {"empty", "partial", "owner"}
LockFile == [by : Procs, content : Contents]
Outcomes == {"none", "PENDING", "NOOP", "REFUSED", "RECOVERED"}

ASSUME NoLockAssumption == NoLock \notin LockFile

Acquiring == {"open", "contended", "reopen", "metadata"}
Releasing == {"release", "unlinkOwn"}
FirstLook == {"observe", "check", "probe"}
SecondLook == {"reobserve", "recheck", "reprobe"}
PCs == {"new", "gone", "inside", "persist", "unlink", "reconcile", "conclude"}
       \cup Acquiring \cup Releasing \cup FirstLook \cup SecondLook

Init ==
    /\ lock = NoLock
    /\ pc = [p \in Procs |-> "new"]
    /\ recovering = {}
    /\ forced = {}
    /\ observed = [p \in Procs |-> NoLock]
    /\ sight = [p \in Procs |-> NoLock]
    /\ verdict = [p \in Procs |-> "none"]
    /\ records = [p \in Procs |-> "none"]

-----------------------------------------------------------------------------

At(p, label) == pc[p] = label
Goto(p, label) == pc' = [pc EXCEPT ![p] = label]

Running(p) == pc[p] \notin {"new", "gone"}

\* Where a process that is done with the lock goes: a recovery's lock is the
\* one its reconciliation takes.
Done(p) == IF p \in recovering THEN "conclude" ELSE "gone"

\* process.kill(pid, 0)
Probe_DeniedIsDead(p) == IF Running(p) /\ p \notin Unprobeable THEN "LIVE" ELSE "DEAD"
Probe(p) ==
    IF ~Running(p) THEN "DEAD"
    ELSE IF p \in Unprobeable THEN "UNVERIFIABLE" ELSE "LIVE"

\* inspectLifecycleLock, of the content it read and the owner it names.
Classify(l) ==
    CASE l = NoLock -> "ABSENT"
      [] l # NoLock /\ l.content = "empty" -> "UNVERIFIABLE"
      [] l # NoLock /\ l.content = "partial" -> "MALFORMED"
      [] l # NoLock /\ l.content = "owner" -> Probe(l.by)

-----------------------------------------------------------------------------
(* acquireLifecycleStateLock                                               *)

\* The operator who forces a recovery lets no command begin before the recovery
\* has had its first look.
BeginCommand(p) ==
    /\ At(p, "new")
    /\ \A q \in forced : pc[q] \notin FirstLook
    /\ Goto(p, "open")
    /\ UNCHANGED <<lock, recovery>>

\* 'w': the file is truncated if it is there.
MayCreate_Overwrites == TRUE
\* 'wx': an existing file is an error.
MayCreate == lock = NoLock

Open(p) ==
    /\ pc[p] \in {"open", "reopen"}
    /\ MayCreate
    /\ lock' = [by |-> p, content |-> "empty"]
    /\ Goto(p, "metadata")
    /\ UNCHANGED recovery

OpenFails(p) ==
    /\ pc[p] \in {"open", "reopen"}
    /\ lock # NoLock
    /\ Goto(p, IF At(p, "open") THEN "contended" ELSE Done(p))
    /\ UNCHANGED <<lock, recovery>>

\* One more attempt if the lock is found released; otherwise the contention is
\* reported and the lock left intact.
Contend(p) ==
    /\ At(p, "contended")
    /\ Goto(p, IF lock = NoLock THEN "reopen" ELSE Done(p))
    /\ UNCHANGED <<lock, recovery>>

\* A write through the handle reaches the path only while the path is the file.
Content(p, content) ==
    lock' = IF lock # NoLock /\ lock.by = p THEN [lock EXCEPT !.content = content] ELSE lock

WriteMetadata(p) ==
    /\ At(p, "metadata")
    /\ Content(p, "owner")
    /\ Goto(p, "inside")
    /\ UNCHANGED recovery

\* The write fails, or the sync after a whole one: the lock is retained with what
\* was written.
MetadataFails(p) ==
    /\ At(p, "metadata")
    /\ \E content \in Contents : Content(p, content)
    /\ Goto(p, Done(p))
    /\ UNCHANGED recovery

Leave(p) ==
    /\ At(p, "inside")
    /\ Goto(p, "release")
    /\ UNCHANGED <<lock, recovery>>

\* safeRemoveOwnedLock: the path is still the file opened, with this token.
OwnLock(p) == lock = [by |-> p, content |-> "owner"]

Release(p) ==
    /\ At(p, "release")
    /\ Goto(p, IF OwnLock(p) THEN "unlinkOwn" ELSE Done(p))
    /\ UNCHANGED <<lock, recovery>>

UnlinkOwn(p) ==
    /\ At(p, "unlinkOwn")
    /\ lock' = NoLock
    /\ Goto(p, Done(p))
    /\ UNCHANGED recovery

Command(p) ==
    \/ Open(p) \/ OpenFails(p) \/ Contend(p) \/ WriteMetadata(p) \/ MetadataFails(p)
    \/ Leave(p) \/ Release(p) \/ UnlinkOwn(p)

-----------------------------------------------------------------------------
(* recoverLifecycleLock                                                    *)

\* One recovery at a time, and a forced one only while no command runs: what
\* the code asks of the operator instead of enforcing it.
BeginRecover(p) ==
    /\ At(p, "new")
    /\ \A q \in recovering : ~Running(q)
    /\ recovering' = recovering \cup {p}
    /\ \/ forced' = forced
       \/ /\ \A q \in Procs : ~Running(q)
          /\ forced' = forced \cup {p}
    /\ Goto(p, "observe")
    /\ UNCHANGED <<lock, observed, sight, verdict, records>>

\* Read the file, then look whether the path is still what was read.
Observe(p) ==
    /\ pc[p] \in {"observe", "reobserve"}
    /\ sight' = [sight EXCEPT ![p] = lock]
    /\ Goto(p, IF At(p, "observe") THEN "check" ELSE "recheck")
    /\ UNCHANGED <<lock, recovering, forced, observed, verdict, records>>

\* A lock that changed under inspection is a path anomaly: never removed.
Check(p) ==
    LET steady == lock = sight[p]
    IN  /\ pc[p] \in {"check", "recheck"}
        /\ Goto(p, CASE ~steady -> "conclude"
                     [] steady /\ At(p, "check") -> "probe"
                     [] steady /\ At(p, "recheck") -> "reprobe")
        /\ verdict' = IF steady THEN verdict ELSE [verdict EXCEPT ![p] = "REFUSED"]
        /\ UNCHANGED <<lock, recovering, forced, observed, sight, records>>

\* Recovery that forgets to ask for --force.
MayRemove_Unforced(p, class) == class \in {"DEAD", "UNVERIFIABLE", "MALFORMED"}
\* What the first inspection must show.
MayRemove(p, class) ==
    \/ class = "DEAD"
    \/ class \in {"UNVERIFIABLE", "MALFORMED"} /\ p \in forced

\* The first inspection ends: nothing to do, refused, or go on.
FirstVerdict(p) ==
    LET class == Classify(sight[p])
    IN  /\ At(p, "probe")
        /\ observed' = [observed EXCEPT ![p] = sight[p]]
        /\ verdict' = [verdict EXCEPT ![p] = CASE class = "ABSENT" -> "NOOP"
                                               [] MayRemove(p, class) -> "RECOVERED"
                                               [] OTHER -> "REFUSED"]
        /\ Goto(p, IF MayRemove(p, class) THEN "persist" ELSE "conclude")
        /\ UNCHANGED <<lock, recovering, forced, sight, records>>

Persist_NotAwaited(p) == records' = records
\* The write-ahead record.
Persist(p) == records' = [records EXCEPT ![p] = "PENDING"]

PersistPending(p) ==
    /\ At(p, "persist")
    /\ Persist(p)
    /\ Goto(p, "reobserve")
    /\ UNCHANGED <<lock, recovering, forced, observed, sight, verdict>>

\* The final inspection must show the same lock, not live, and still dead if
\* death was the ground for removing it.
SecondVerdict(p) ==
    LET before == Classify(observed[p])
        class == Classify(sight[p])
        go == /\ sight[p] = observed[p]
              /\ class # "LIVE"
              /\ before = "DEAD" => class = "DEAD"
    IN  /\ At(p, "reprobe")
        /\ verdict' = IF go THEN verdict ELSE [verdict EXCEPT ![p] = "REFUSED"]
        /\ Goto(p, IF go THEN "unlink" ELSE "conclude")
        /\ UNCHANGED <<lock, recovering, forced, observed, sight, records>>

\* rm removes what the path names now; a file already gone is success.
Unlink(p) ==
    /\ At(p, "unlink")
    /\ lock' = NoLock
    /\ Goto(p, "reconcile")
    /\ UNCHANGED recovery

\* An outcome readRecoveryAuditRecords does not accept back.
AfterFailure_Unlisted(p) == "FAILED"
\* A failed removal reported as if it had been done.
AfterFailure_Recovered(p) == "RECOVERED"
AfterFailure(p) == "REFUSED"

\* rm fails: refused if the lock is the one observed, otherwise an error that
\* leaves the record PENDING.
UnlinkFails(p) ==
    /\ At(p, "unlink")
    /\ lock # NoLock
    /\ verdict' = [verdict EXCEPT ![p] = AfterFailure(p)]
    /\ Goto(p, IF lock = observed[p] THEN "conclude" ELSE "gone")
    /\ UNCHANGED <<lock, recovering, forced, observed, sight, records>>

\* recoverPendingLifecycleAudits takes the lock itself when an audit is
\* pending; busy or failed, the recovery is recorded all the same.
Reconcile(p) ==
    /\ At(p, "reconcile")
    /\ \E pending \in BOOLEAN : Goto(p, IF pending THEN "open" ELSE "conclude")
    /\ UNCHANGED <<lock, recovery>>

Conclude(p) ==
    /\ At(p, "conclude")
    /\ records' = [records EXCEPT ![p] = verdict[p]]
    /\ Goto(p, "gone")
    /\ UNCHANGED <<lock, recovering, forced, observed, sight, verdict>>

\* A record that cannot be written is an error, before removal and after it.
RecordFails(p) ==
    /\ pc[p] \in {"persist", "conclude"}
    /\ Goto(p, "gone")
    /\ UNCHANGED <<lock, recovery>>

Recovery(p) ==
    \/ Observe(p) \/ Check(p) \/ FirstVerdict(p) \/ PersistPending(p)
    \/ SecondVerdict(p) \/ Unlink(p) \/ UnlinkFails(p) \/ Reconcile(p)
    \/ Conclude(p) \/ RecordFails(p)

\* The process dies; what it left in the directory stays.
Crash(p) ==
    /\ Running(p)
    /\ Goto(p, "gone")
    /\ UNCHANGED <<lock, recovery>>

Next == \E p \in Procs :
            BeginCommand(p) \/ BeginRecover(p) \/ Command(p) \/ Recovery(p) \/ Crash(p)

Spec == Init /\ [][Next]_vars

-----------------------------------------------------------------------------
(* Properties.                                                             *)

\* Every variable has the shape the code gives it.
TypeOK ==
    /\ lock \in LockFile \cup {NoLock}
    /\ pc \in [Procs -> PCs]
    /\ recovering \in SUBSET Procs
    /\ forced \in SUBSET recovering
    /\ observed \in [Procs -> LockFile \cup {NoLock}]
    /\ sight \in [Procs -> LockFile \cup {NoLock}]
    /\ verdict \in [Procs -> Outcomes]
    /\ records \in [Procs -> Outcomes]

\* No two processes are between acquisition and release at once, although a
\* recovery removes lock files by their path.
Exclusive == \A p, q \in Procs : At(p, "inside") /\ At(q, "inside") => p = q

\* A lock file disappears only by its owner's release or after its owner has
\* died: neither a recovery nor another's release removes a live lock.
LiveLockKept ==
    [][lock # NoLock /\ (lock' = NoLock \/ lock'.by # lock.by)
          => At(lock.by, "unlinkOwn") \/ ~Running(lock.by)]_vars

\* A lock its owner did not release disappears only under the PENDING record
\* of a recovery that observed that very file.
RemovalRecorded ==
    [][lock # NoLock /\ lock' = NoLock /\ ~At(lock.by, "unlinkOwn")
          => \E p \in recovering : records[p] = "PENDING" /\ observed[p] = lock]_vars

\* A recovery recorded as RECOVERED did remove the lock it observed, and one
\* that left it is never recorded so.
RecoveredMeansGone == \A p \in Procs : records[p] = "RECOVERED" => lock # observed[p]

-----------------------------------------------------------------------------
(* The inductive invariant behind the properties above.                     *)

\* A recovery that has decided to remove the lock it observed.
Committed == {"persist", "unlink"} \cup SecondLook

\* The file a process has, from its creation to its release.
HoldsFile ==
    \A p \in Procs :
        /\ At(p, "metadata") => lock = [by |-> p, content |-> "empty"]
        /\ pc[p] \in {"inside", "release", "unlinkOwn"} =>
              lock = [by |-> p, content |-> "owner"]

\* What is or was the lock was created by a process past its acquisition: not
\* one yet to begin, nor a recovery that has not come to its reconciliation.
Opened(p) == pc[p] \notin {"new"} \cup FirstLook \cup Committed

CreatorsOpened ==
    /\ lock # NoLock => Opened(lock.by)
    /\ \A p \in Procs : /\ sight[p] # NoLock => Opened(sight[p].by)
                        /\ observed[p] # NoLock => Opened(observed[p].by)

OneRecovery ==
    /\ \A p, q \in recovering : Running(p) /\ Running(q) => p = q
    /\ \A p \in Procs : pc[p] \in FirstLook \cup Committed \cup {"reconcile", "conclude"}
                            => p \in recovering
    /\ \A p \in Procs : At(p, "new") => p \notin recovering

\* A forced recovery looks at the lock while nothing else runs.
ForcedAlone ==
    \A p \in forced, q \in Procs : pc[p] \in FirstLook /\ Running(q) => p = q

\* A lock chosen for removal is a dead process's; once it has been read again
\* it cannot be replaced, for only this recovery may remove it.
RemovesTheDead ==
    \A p \in Procs :
        /\ pc[p] \in Committed => observed[p] # NoLock /\ pc[observed[p].by] = "gone"
        /\ pc[p] \in {"recheck", "reprobe"} /\ sight[p] = observed[p] => lock = observed[p]
        /\ At(p, "unlink") => lock = observed[p]

\* The lock a recovery observed is gone for good: its creator is dead.
Removed(p) ==
    /\ observed[p] # NoLock
    /\ pc[observed[p].by] = "gone"
    /\ lock # observed[p]

\* What a recovery records, before its rm and after it.
RecordsKept ==
    \A p \in Procs :
        /\ pc[p] \in {"new"} \cup FirstLook => verdict[p] = "none" /\ records[p] = "none"
        /\ pc[p] \in SecondLook \cup {"unlink"} => records[p] = "PENDING"
        /\ p \in recovering /\ Running(p) /\ pc[p] \notin Committed
              /\ verdict[p] = "RECOVERED" => Removed(p)
        /\ records[p] = "RECOVERED" => Removed(p)

\* Exclusive alone is not inductive: it does not say what the path names when
\* a recovery reaches its rm.
Inductive ==
    /\ TypeOK
    /\ HoldsFile
    /\ CreatorsOpened
    /\ OneRecovery
    /\ ForcedAlone
    /\ RemovesTheDead
    /\ RecordsKept

=============================================================================
