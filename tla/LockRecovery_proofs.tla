------------------------- MODULE LockRecovery_proofs -------------------------
(***************************************************************************)
(* Recovery is safe among any number of commands: one without --force       *)
(* needs only that recoveries run one at a time, one with --force also that *)
(* its first look finds the repository quiet.                               *)
(***************************************************************************)
EXTENDS LockRecovery, TLAPS

LEMMA InitInductive ==
    ASSUME Init
    PROVE  Inductive
  BY NoLockAssumption
     DEF Init, Inductive, TypeOK, HoldsFile, CreatorsOpened, Opened, OneRecovery, ForcedAlone, RemovesTheDead, RecordsKept, Removed,
         Committed, FirstLook, SecondLook, Acquiring, Releasing, PCs, Outcomes, Running, At

\* Acquiring and releasing: a file is created only where there is none, written
\* and unlinked only by its creator.
LEMMA CommandKeeps ==
    ASSUME Inductive, NEW p \in Procs, Command(p)
    PROVE  Inductive'
  <1> USE NoLockAssumption
          DEF Inductive, TypeOK, HoldsFile, CreatorsOpened, Opened, OneRecovery, ForcedAlone, RemovesTheDead, RecordsKept, Removed,
              Committed, FirstLook, SecondLook, Acquiring, Releasing, PCs, Contents,
              LockFile, Outcomes, Running, At, Goto, recovery
  <1>1. CASE Open(p)
    BY <1>1 DEF Open, MayCreate
  <1>2. CASE OpenFails(p)
    BY <1>2 DEF OpenFails, Done
  <1>3. CASE Contend(p)
    BY <1>3 DEF Contend, Done
  <1>4. CASE WriteMetadata(p)
    BY <1>4 DEF WriteMetadata, Content
  <1>5. CASE MetadataFails(p)
    BY <1>5 DEF MetadataFails, Content, Done
  <1>6. CASE Leave(p)
    BY <1>6 DEF Leave
  <1>7. CASE Release(p)
    BY <1>7 DEF Release, Done, OwnLock
  <1>8. CASE UnlinkOwn(p)
    BY <1>8 DEF UnlinkOwn, Done
  <1> QED
    BY <1>1, <1>2, <1>3, <1>4, <1>5, <1>6, <1>7, <1>8 DEF Command

\* Recovering: what is unlinked is a lock whose creator is gone, and so one
\* nobody else can have replaced since it was read.
LEMMA RecoveryKeeps ==
    ASSUME Inductive, NEW p \in Procs, Recovery(p)
    PROVE  Inductive'
  <1> USE NoLockAssumption
          DEF Inductive, TypeOK, HoldsFile, CreatorsOpened, Opened, OneRecovery, ForcedAlone, RemovesTheDead, RecordsKept, Removed,
              Committed, FirstLook, SecondLook, Acquiring, Releasing, PCs, Contents,
              LockFile, Outcomes, Running, At, Goto, recovery
  <1>1. CASE Observe(p)
    BY <1>1 DEF Observe
  <1>2. CASE Check(p)
    BY <1>2 DEF Check
  <1>3. CASE FirstVerdict(p)
    <2>1. (HoldsFile /\ CreatorsOpened /\ OneRecovery /\ ForcedAlone)' /\ TypeOK'
      BY <1>3 DEF FirstVerdict, MayRemove, Classify, Probe
    <2>2. RemovesTheDead'
      BY <1>3 DEF FirstVerdict, MayRemove, Classify, Probe
    <2>3. RecordsKept'
      BY <1>3 DEF FirstVerdict, MayRemove
    <2> QED
      BY <2>1, <2>2, <2>3
  <1>4. CASE PersistPending(p)
    BY <1>4 DEF PersistPending, Persist
  <1>5. CASE SecondVerdict(p)
    BY <1>5 DEF SecondVerdict
  <1>6. CASE Unlink(p)
    BY <1>6 DEF Unlink
  <1>7. CASE UnlinkFails(p)
    BY <1>7 DEF UnlinkFails, AfterFailure
  <1>8. CASE Reconcile(p)
    BY <1>8 DEF Reconcile
  <1>9. CASE Conclude(p)
    BY <1>9 DEF Conclude
  <1>10. CASE RecordFails(p)
    BY <1>10 DEF RecordFails
  <1> QED
    BY <1>1, <1>2, <1>3, <1>4, <1>5, <1>6, <1>7, <1>8, <1>9, <1>10 DEF Recovery

LEMMA NextKeeps ==
    ASSUME Inductive, Next
    PROVE  Inductive'
  <1> SUFFICES ASSUME NEW p \in Procs,
                      \/ BeginCommand(p) \/ BeginRecover(p) \/ Command(p)
                      \/ Recovery(p) \/ Crash(p)
               PROVE  Inductive'
    BY DEF Next
  <1>1. CASE BeginCommand(p) \/ BeginRecover(p) \/ Crash(p)
    BY <1>1, NoLockAssumption
       DEF BeginCommand, BeginRecover, Crash,
           Inductive, TypeOK, HoldsFile, CreatorsOpened, Opened, OneRecovery, ForcedAlone, RemovesTheDead, RecordsKept, Removed,
           Committed, FirstLook, SecondLook, Acquiring, Releasing, PCs, Contents,
           LockFile, Outcomes, Running, At, Goto, recovery
  <1> QED
    BY <1>1, CommandKeeps, RecoveryKeeps

LEMMA StutterKeeps ==
    ASSUME Inductive, UNCHANGED vars
    PROVE  Inductive'
  BY DEF vars, Inductive, TypeOK, HoldsFile, CreatorsOpened, Opened, OneRecovery, ForcedAlone, RemovesTheDead, RecordsKept, Removed,
         Running, At

LEMMA InductiveInvariant == Spec => []Inductive
  <1>1. Init => Inductive
    BY InitInductive
  <1>2. Inductive /\ [Next]_vars => Inductive'
    BY NextKeeps, StutterKeeps
  <1> QED
    BY <1>1, <1>2, PTL DEF Spec

\* Every process keeps a job of its shape, and the audit holds records only.
THEOREM RecoveryTypes == Spec => []TypeOK
  <1>1. Inductive => TypeOK
    BY DEF Inductive
  <1> QED
    BY <1>1, InductiveInvariant, PTL

\* Two processes are never both between acquireLifecycleStateLock and release,
\* whatever recovery removes meanwhile.
THEOREM RecoveryExcludes == Spec => []Exclusive
  <1>1. Inductive => Exclusive
    BY DEF Inductive, HoldsFile, Exclusive, At
  <1> QED
    BY <1>1, InductiveInvariant, PTL

\* No step but its owner's release takes the lock file of a running process
\* away, whatever recovery removes meanwhile.
THEOREM RecoveryKeepsLiveLocks == Spec => LiveLockKept
  <1> DEFINE Kept == lock # NoLock /\ (lock' = NoLock \/ lock'.by # lock.by)
                        => At(lock.by, "unlinkOwn") \/ ~Running(lock.by)
  <1>1. Inductive /\ [Next]_vars => [Kept]_vars
    <2> SUFFICES ASSUME Inductive, Next, NEW p \in Procs,
                        lock' # lock, lock # NoLock,
                        \/ BeginCommand(p) \/ BeginRecover(p) \/ Command(p)
                        \/ Recovery(p) \/ Crash(p)
                 PROVE  Kept
      BY DEF Next
    <2>1. Open(p) \/ WriteMetadata(p) \/ MetadataFails(p) \/ UnlinkOwn(p) \/ Unlink(p)
      BY DEF BeginCommand, BeginRecover, Crash, Command, Recovery, OpenFails, Contend, Leave,
             Release, Observe, Check, FirstVerdict, PersistPending, SecondVerdict, UnlinkFails,
             Reconcile, Conclude, RecordFails
    <2>2. CASE Open(p)
      BY <2>2 DEF Open, MayCreate
    <2>3. CASE WriteMetadata(p) \/ MetadataFails(p)
      BY <2>3, NoLockAssumption DEF WriteMetadata, MetadataFails, Content, Inductive, TypeOK,
                                    LockFile, Contents
    <2>4. CASE UnlinkOwn(p)
      BY <2>4 DEF UnlinkOwn, At, Inductive, HoldsFile
    <2>5. CASE Unlink(p)
      BY <2>5 DEF Unlink, At, Running, Inductive, RemovesTheDead, Committed
    <2> QED
      BY <2>1, <2>2, <2>3, <2>4, <2>5
  <1> QED
    BY <1>1, InductiveInvariant, PTL DEF Spec, LiveLockKept

\* Every lock that disappears without its owner's release disappears under the
\* PENDING record of a recovery that observed that very file.
THEOREM RemovalIsRecorded == Spec => RemovalRecorded
  <1> DEFINE Recorded == lock # NoLock /\ lock' = NoLock /\ ~At(lock.by, "unlinkOwn")
                => \E p \in recovering : records[p] = "PENDING" /\ observed[p] = lock
  <1>1. Inductive /\ [Next]_vars => [Recorded]_vars
    <2> SUFFICES ASSUME Inductive, NEW p \in Procs, lock # NoLock, lock' = NoLock,
                        \/ BeginCommand(p) \/ BeginRecover(p) \/ Command(p)
                        \/ Recovery(p) \/ Crash(p)
                 PROVE  Recorded
      BY DEF Next
    <2>1. UnlinkOwn(p) \/ Unlink(p)
      BY NoLockAssumption
         DEF BeginCommand, BeginRecover, Crash, Command, Recovery, Open, OpenFails, Contend,
             WriteMetadata, MetadataFails, Content, Leave, LockFile, Contents, Inductive, TypeOK,
             Release, Observe, Check, FirstVerdict, PersistPending, SecondVerdict, UnlinkFails,
             Reconcile, Conclude, RecordFails
    <2>2. CASE UnlinkOwn(p)
      BY <2>2 DEF UnlinkOwn, At, Inductive, HoldsFile
    <2>3. CASE Unlink(p)
      BY <2>3 DEF Unlink, At, Inductive, RemovesTheDead, RecordsKept, OneRecovery, Committed
    <2> QED
      BY <2>1, <2>2, <2>3
  <1> QED
    BY <1>1, InductiveInvariant, PTL DEF Spec, RemovalRecorded

\* A recovery on record as RECOVERED did remove the lock it had observed.
THEOREM RecoveredLocksAreGone == Spec => []RecoveredMeansGone
  <1>1. Inductive => RecoveredMeansGone
    BY DEF Inductive, RecordsKept, Removed, RecoveredMeansGone
  <1> QED
    BY <1>1, InductiveInvariant, PTL

=============================================================================
