--------------------------- MODULE Lifecycle_proofs ---------------------------
(***************************************************************************)
(* Proofs about Lifecycle, for every number of processes, contracts,       *)
(* scopes and faults: types, locks and pointers; then what a step may do to  *)
(* the files (write-ahead, the history and the artifacts that are kept), and *)
(* the refinement of LifecycleAbstract.                                     *)
(***************************************************************************)
EXTENDS Lifecycle, FiniteSetTheorems, TLAPS

-----------------------------------------------------------------------------
(* The operators on state.json.                                            *)

\* Appending a record keeps the file a state file and the records before it.
LEMMA AppendStore ==
    ASSUME NEW s \in StateFile, NEW r \in AuditRecord
    PROVE  /\ Append1(s, r) \in StateFile
           /\ Append1(s, r).audits = Append(s.audits, r)
           /\ Append1(s, r).phase = s.phase
           /\ Append1(s, r).active = s.active
           /\ Append1(s, r).lastClosed = s.lastClosed
           /\ DOMAIN Append1(s, r).audits = 1..(Len(s.audits) + 1)
           /\ DOMAIN s.audits = 1..Len(s.audits)
           /\ Len(s.audits) \in Nat
           /\ \A e \in DOMAIN s.audits : Append1(s, r).audits[e] = s.audits[e]
           /\ Append1(s, r).audits[Len(s.audits) + 1] = r
  BY DEF Append1, StateFile

\* Resolving a record changes its outcome and nothing else.
LEMMA ResolveStore ==
    ASSUME NEW s \in StateFile, NEW e \in Nat, NEW o \in Outcomes
    PROVE  /\ Resolve(s, e, o) \in StateFile
           /\ Resolve(s, e, o).phase = s.phase
           /\ Resolve(s, e, o).active = s.active
           /\ Resolve(s, e, o).lastClosed = s.lastClosed
           /\ DOMAIN Resolve(s, e, o).audits = DOMAIN s.audits
           /\ \A d \in DOMAIN s.audits :
                 Resolve(s, e, o).audits[d] =
                     IF d = e THEN [s.audits[d] EXCEPT !.outcome = o] ELSE s.audits[d]
  <1> DEFINE n == Len(s.audits)
             g(d) == IF d = e THEN [s.audits[d] EXCEPT !.outcome = o] ELSE s.audits[d]
             h == [d \in 1..n |-> g(d)]
  <1>1. s.audits \in Seq(AuditRecord) /\ n \in Nat /\ DOMAIN s.audits = 1..n
    BY DEF StateFile
  <1>2. \A d \in 1..n : s.audits[d] \in AuditRecord
    BY <1>1
  <1>3. \A d \in 1..n : g(d) \in AuditRecord
    BY <1>2 DEF AuditRecord, Outcomes
  <1>4. h \in Seq(AuditRecord) /\ DOMAIN h = 1..n
    BY <1>1, <1>3
  <1>5. [s.audits EXCEPT ![e].outcome = o] = h
    BY <1>1
  <1>6. Resolve(s, e, o) = [s EXCEPT !.audits = h]
    BY <1>5 DEF Resolve, StateFile
  <1> HIDE DEF h
  <1>7. /\ Resolve(s, e, o) \in StateFile
        /\ Resolve(s, e, o).audits = h
        /\ Resolve(s, e, o).phase = s.phase
        /\ Resolve(s, e, o).active = s.active
        /\ Resolve(s, e, o).lastClosed = s.lastClosed
    BY <1>4, <1>6 DEF StateFile
  <1>8. QED
    BY <1>1, <1>4, <1>7 DEF h

\* The merge of two histories has every event of both.
LEMMA MergeStore ==
    ASSUME NEW h \in Seq(AuditRecord), NEW k \in Seq(AuditRecord)
    PROVE  /\ MergeAudits(h, k) \in Seq(AuditRecord)
           /\ DOMAIN MergeAudits(h, k) = DOMAIN h \cup DOMAIN k
  <1> DEFINE m == IF Len(h) >= Len(k) THEN Len(h) ELSE Len(k)
  <1>1. /\ m \in Nat
        /\ DOMAIN h = 1..Len(h) /\ DOMAIN k = 1..Len(k)
        /\ Len(h) \in Nat /\ Len(k) \in Nat
    OBVIOUS
  <1>2. DOMAIN h \cup DOMAIN k = 1..m
    BY <1>1
  <1>3. \A e \in 1..m : MergeAudits(h, k)[e] \in AuditRecord
    BY <1>1, <1>2 DEF MergeAudits
  <1>4. DOMAIN MergeAudits(h, k) = 1..m
    BY <1>2 DEF MergeAudits
  <1> DEFINE f(e) == MergeAudits(h, k)[e]
  <1>5. MergeAudits(h, k) = [e \in 1..m |-> f(e)]
    BY <1>2 DEF MergeAudits
  <1> HIDE DEF m
  <1>6. \A e \in 1..m : f(e) \in AuditRecord
    BY <1>3
  <1> HIDE DEF f
  <1>7. [e \in 1..m |-> f(e)] \in Seq(AuditRecord)
    BY <1>1, <1>6
  <1>8. QED
    BY <1>2, <1>4, <1>5, <1>7

-----------------------------------------------------------------------------
(* Types of what the actions build.                                        *)

LEMMA NewAuditType ==
    ASSUME NEW op \in Operations, NEW c \in ContractRef,
           NEW from \in Phases, NEW to \in Phases,
           NEW before \in BudgetRef, NEW after \in BudgetRef
    PROVE  /\ NewAudit(op, c, from, to, before, after) \in AuditRecord
           /\ NewAudit(op, c, from, to, before, after).outcome = "pending"
           /\ NewAudit(op, c, from, to, before, after).contract = c
           /\ NewAudit(op, c, from, to, before, after).op = op
  BY DEF NewAudit, AuditRecord, Outcomes

LEMMA AuditAt ==
    ASSUME NEW s \in StateFile, NEW e \in DOMAIN s.audits
    PROVE  /\ e \in Nat \ {0}
           /\ s.audits[e] \in AuditRecord
           /\ s.audits[e].contract \in ContractRef
  <1>1. s.audits \in Seq(AuditRecord)
    BY DEF StateFile
  <1>2. e \in 1..Len(s.audits) /\ s.audits[e] \in AuditRecord
    BY <1>1
  <1> QED
    BY <1>2 DEF AuditRecord

LEMMA PendingInDomain ==
    ASSUME NEW s \in StateFile
    PROVE  PendingEvents(s) \subseteq Nat \ {0} /\ PendingEvents(s) \subseteq DOMAIN s.audits
  BY DEF PendingEvents, StateFile

LEMMA JobType ==
    ASSUME NEW p \in Procs, job \in [Procs -> JobRecord]
    PROVE  /\ \A c \in ContractRef : [job EXCEPT ![p].held = c] \in [Procs -> JobRecord]
           /\ \A n \in Nat : [job EXCEPT ![p].event = n] \in [Procs -> JobRecord]
           /\ [job EXCEPT ![p] = NoJob] \in [Procs -> JobRecord]
           /\ \A c \in ContractRef, n \in Nat :
                 [job EXCEPT ![p].held = c, ![p].event = n] \in [Procs -> JobRecord]
           /\ \A op \in Operations, e \in SUBSET Nat :
                 [job EXCEPT ![p] = [NoJob EXCEPT !.op = op, !.seen = e]]
                     \in [Procs -> JobRecord]
           /\ \A s \in StateFile, b \in BudgetRef, c \in ContractRef :
                 [job EXCEPT ![p].snapshot = s, ![p].ask = b, ![p].candidate = c]
                     \in [Procs -> JobRecord]
           /\ \A e \in Nat :
                 [job EXCEPT ![p].seen = @ \ {e}, ![p].settled = @ \cup {e}]
                     \in [Procs -> JobRecord]
  <1>1. NoJob \in JobRecord
    BY DEF NoJob, JobRecord, EmptyState, StateFile, Phases, ContractRef, BudgetRef
  <1>2. job[p] \in JobRecord
    OBVIOUS
  <1> QED
    BY <1>1, <1>2 DEF JobRecord, NoJob

-----------------------------------------------------------------------------
(* The state lock and the processes outside it.                            *)

\* A process outside the lock has nothing to claim.
LEMMA OutsideLocal ==
    ASSUME NEW q \in Procs, pc'[q] \notin Locked
    PROVE  CopyCurrent(q)' /\ RecordInPlace(q)' /\ WritesDone(q)'
  BY DEF CopyCurrent, RecordInPlace, WritesDone, BeforeAppend, Appended,
         HoldsOldCopy, StartTry, StartCleanup, Locked, Writing

\* What one command's step inside the lock must show.
LEMMA Conclude ==
    ASSUME Inductive, NEW p \in Procs, pc[p] \in Locked,
           \A q \in Procs \ {p} : pc'[q] = pc[q],
           TypeOK', StateLockExcludes', SeenInHistory', FilesCoherent',
           CopyCurrent(p)', RecordInPlace(p)', WritesDone(p)'
    PROVE  Inductive'
  <1>1. \A q \in Procs \ {p} : pc'[q] \notin Locked
    BY DEF Inductive, StateLockExcludes
  <1>2. \A q \in Procs \ {p} : CopyCurrent(q)' /\ RecordInPlace(q)' /\ WritesDone(q)'
    BY <1>1, OutsideLocal
  <1> QED
    BY <1>2 DEF Inductive

\* Moving from one place inside the lock to another.
LEMMA StayLocked ==
    ASSUME TypeOK, StateLockExcludes, NEW p \in Procs, NEW l \in Locked, pc[p] \in Locked,
           pc' = [pc EXCEPT ![p] = l], stateLock' = stateLock
    PROVE  /\ StateLockExcludes'
           /\ pc' \in [Procs -> PCs]
           /\ pc'[p] = l
           /\ \A q \in Procs \ {p} : pc'[q] = pc[q]
  BY DEF StateLockExcludes, TypeOK, PCs

\* Files nobody writes stay coherent.
LEMMA FilesUntouched ==
    ASSUME FilesCoherent, UNCHANGED files
    PROVE  FilesCoherent'
  BY DEF FilesCoherent, files, Named, PendingEvents

\* Leaving the lock, normally or not.
LEMMA Leave ==
    ASSUME Inductive, NEW p \in Procs, NEW l \in PCs \ Locked, pc[p] \in Locked,
           pc' = [pc EXCEPT ![p] = l], stateLock' \in {Free, Stale},
           contractLock' \in [Contracts -> Procs \cup {Free, Stale}],
           job' \in [Procs -> JobRecord], SeenInHistory', faults' \in Nat,
           UNCHANGED files
    PROVE  Inductive'
  <1>1. \A q \in Procs : pc'[q] \notin Locked
    BY ProcessAssumption DEF Inductive, StateLockExcludes, TypeOK
  <1>2. TypeOK'
    BY DEF Inductive, TypeOK, files
  <1>3. StateLockExcludes'
    BY <1>1, ProcessAssumption DEF StateLockExcludes
  <1>4. FilesCoherent'
    BY FilesUntouched DEF Inductive
  <1> QED
    BY <1>1, <1>2, <1>3, <1>4, OutsideLocal DEF Inductive

\* A step outside the lock.
LEMMA StayOutside ==
    ASSUME Inductive, NEW p \in Procs, NEW l \in PCs \ Locked, pc[p] \notin Locked,
           pc' = [pc EXCEPT ![p] = l], stateLock' = stateLock,
           contractLock' \in [Contracts -> Procs \cup {Free, Stale}],
           job' \in [Procs -> JobRecord], \A q \in Procs \ {p} : job'[q] = job[q],
           SeenInHistory', faults' \in Nat, UNCHANGED files
    PROVE  Inductive'
  <1>1. TypeOK'
    BY DEF Inductive, TypeOK, files
  <1>2. StateLockExcludes'
    BY DEF Inductive, StateLockExcludes, TypeOK
  <1>3. FilesCoherent'
    BY FilesUntouched DEF Inductive
  <1>4. \A q \in Procs \ {p} : CopyCurrent(q)' /\ RecordInPlace(q)' /\ WritesDone(q)'
    <2> SUFFICES ASSUME NEW q \in Procs \ {p}
                 PROVE  CopyCurrent(q)' /\ RecordInPlace(q)' /\ WritesDone(q)'
      OBVIOUS
    <2>1. pc'[q] = pc[q] /\ job'[q] = job[q]
      BY DEF Inductive, TypeOK
    <2> QED
      BY <2>1 DEF Inductive, files, CopyCurrent, RecordInPlace, WritesDone, Subject,
                  PendingEvents
  <1>5. CopyCurrent(p)' /\ RecordInPlace(p)' /\ WritesDone(p)'
    <2>1. pc'[p] \notin Locked
      BY DEF Inductive, TypeOK
    <2> QED
      BY <2>1, OutsideLocal
  <1> QED
    BY <1>1, <1>2, <1>3, <1>4, <1>5 DEF Inductive

\* A step inside the lock that writes no file.
LEMMA MoveInside ==
    ASSUME Inductive, NEW p \in Procs, NEW l \in Locked, pc[p] \in Locked,
           pc' = [pc EXCEPT ![p] = l], stateLock' = stateLock,
           contractLock' \in [Contracts -> Procs \cup {Free, Stale}],
           job' \in [Procs -> JobRecord], SeenInHistory', faults' \in Nat,
           UNCHANGED files,
           CopyCurrent(p)', RecordInPlace(p)', WritesDone(p)'
    PROVE  Inductive'
  <1>1. StateLockExcludes' /\ pc' \in [Procs -> PCs] /\ \A q \in Procs \ {p} : pc'[q] = pc[q]
    BY StayLocked DEF Inductive
  <1>2. TypeOK'
    BY <1>1 DEF Inductive, TypeOK, files
  <1>3. FilesCoherent'
    BY FilesUntouched DEF Inductive
  <1> QED
    BY <1>1, <1>2, <1>3, Conclude

-----------------------------------------------------------------------------
(* Beginning, taking the state lock, leaving it.                           *)

LEMMA BeginKeeps ==
    ASSUME Inductive, NEW p \in Procs, NEW op \in Operations, Begin(p, op)
    PROVE  Inductive'
  <1> DEFINE l == IF HasPending(state) THEN "recoverLock" ELSE "ready"
  <1>1. l \in PCs \ Locked /\ pc[p] \notin Locked
    BY DEF Begin, At, PCs, Locked, Writing, StartTry, StartCleanup
  <1>2. PendingEvents(state) \subseteq DOMAIN state.audits /\ PendingEvents(state) \in SUBSET Nat
    BY PendingInDomain DEF Inductive, TypeOK
  <1>3. job' \in [Procs -> JobRecord]
    BY <1>2, JobType DEF Begin, Inductive, TypeOK
  <1>4. \A q \in Procs \ {p} : job'[q] = job[q]
    BY DEF Begin, Inductive, TypeOK
  <1>5. SeenInHistory'
    BY <1>2 DEF Begin, Inductive, TypeOK, SeenInHistory, files, NoJob
  <1> HIDE DEF l
  <1>6. /\ pc' = [pc EXCEPT ![p] = l] /\ stateLock' = stateLock
        /\ contractLock' \in [Contracts -> Procs \cup {Free, Stale}]
        /\ faults' \in Nat /\ UNCHANGED files
    BY DEF Begin, Goto, locks, Inductive, TypeOK, l
  <1> QED
    BY <1>1, <1>3, <1>4, <1>5, <1>6, StayOutside

LEMMA AcquireKeeps ==
    ASSUME Inductive, NEW p \in Procs, AcquireStateLock(p)
    PROVE  Inductive'
  <1> DEFINE l == IF At(p, "ready") THEN "locked" ELSE "recover"
  <1>1. pc' = [pc EXCEPT ![p] = l] /\ l \in {"locked", "recover"} /\ l \in Locked
    BY DEF AcquireStateLock, Goto, Locked
  <1>2. stateLock = Free /\ stateLock' = p
    BY DEF AcquireStateLock
  <1>3. \A q \in Procs \ {p} : pc'[q] \notin Locked
    BY <1>1, <1>2, ProcessAssumption DEF Inductive, StateLockExcludes, TypeOK
  <1>4. pc'[p] = l
    BY <1>1 DEF Inductive, TypeOK
  <1>5. StateLockExcludes'
    BY <1>1, <1>2, <1>3, <1>4 DEF StateLockExcludes
  <1>6. TypeOK'
    BY <1>1, <1>2 DEF AcquireStateLock, Inductive, TypeOK, files, PCs
  <1>7. FilesCoherent' /\ SeenInHistory'
    BY FilesUntouched DEF AcquireStateLock, Inductive, SeenInHistory, files
  <1>8. CopyCurrent(p)' /\ RecordInPlace(p)' /\ WritesDone(p)'
    BY <1>1, <1>4 DEF CopyCurrent, RecordInPlace, WritesDone, BeforeAppend, Appended,
                      HoldsOldCopy, StartTry, StartCleanup
  <1> QED
    BY <1>3, <1>5, <1>6, <1>7, <1>8, OutsideLocal DEF Inductive

LEMMA BusyKeeps ==
    ASSUME Inductive, NEW p \in Procs, StateLockBusy(p)
    PROVE  Inductive'
  <1>1. pc[p] \notin Locked /\ "idle" \in PCs \ Locked
    BY DEF StateLockBusy, PCs, Locked, Writing, StartTry, StartCleanup
  <1>2. job' \in [Procs -> JobRecord] /\ \A q \in Procs \ {p} : job'[q] = job[q]
    BY JobType DEF StateLockBusy, Inductive, TypeOK
  <1>3. SeenInHistory'
    BY DEF StateLockBusy, Inductive, TypeOK, SeenInHistory, files, NoJob
  <1>4. /\ pc' = [pc EXCEPT ![p] = "idle"] /\ stateLock' = stateLock
        /\ contractLock' \in [Contracts -> Procs \cup {Free, Stale}]
        /\ faults' \in Nat /\ UNCHANGED files
    BY DEF StateLockBusy, Goto, locks, Inductive, TypeOK
  <1> QED
    BY <1>1, <1>2, <1>3, <1>4, StayOutside

LEMMA UnlockKeeps ==
    ASSUME Inductive, NEW p \in Procs, Unlock(p) \/ RecoverUnlock(p)
    PROVE  Inductive'
  <1>1. pc[p] \in Locked /\ {"idle", "ready"} \subseteq PCs \ Locked
    BY DEF Unlock, RecoverUnlock, At, PCs, Locked, Writing, StartTry, StartCleanup
  <1>2. PICK l \in {"idle", "ready"} : pc' = [pc EXCEPT ![p] = l]
    BY DEF Unlock, RecoverUnlock, Goto
  <1>3. job' \in [Procs -> JobRecord]
    <2>1. job' = [job EXCEPT ![p] = NoJob] \/ job' = job
      BY DEF Unlock, RecoverUnlock
    <2>2. job \in [Procs -> JobRecord]
      BY DEF Inductive, TypeOK
    <2> QED
      BY <2>1, <2>2, JobType
  <1>4. SeenInHistory'
    BY DEF Unlock, RecoverUnlock, Inductive, TypeOK, SeenInHistory, files, NoJob
  <1>5. /\ stateLock' \in {Free, Stale}
        /\ contractLock' \in [Contracts -> Procs \cup {Free, Stale}]
        /\ faults' \in Nat /\ UNCHANGED files
    BY DEF Unlock, RecoverUnlock, Inductive, TypeOK
  <1> QED
    BY <1>1, <1>2, <1>3, <1>4, <1>5, Leave

LEMMA CrashKeeps ==
    ASSUME Inductive, NEW p \in Procs, Crash(p)
    PROVE  Inductive'
  <1>1. "idle" \in PCs \ Locked
    BY DEF PCs, Locked, Writing, StartTry, StartCleanup
  <1>2. job' \in [Procs -> JobRecord] /\ \A q \in Procs \ {p} : job'[q] = job[q]
    BY JobType DEF Crash, Inductive, TypeOK
  <1>3. SeenInHistory'
    BY DEF Crash, Inductive, TypeOK, SeenInHistory, files, NoJob
  <1>4. /\ pc' = [pc EXCEPT ![p] = "idle"]
        /\ contractLock' \in [Contracts -> Procs \cup {Free, Stale}]
        /\ faults' \in Nat /\ UNCHANGED files
    BY DEF Crash, Goto, Inductive, TypeOK
  <1>5. CASE pc[p] \in Locked
    <2>1. stateLock' = Stale
      BY <1>5 DEF Crash, Inductive, StateLockExcludes
    <2> QED
      BY <1>1, <1>2, <1>3, <1>4, <1>5, <2>1, Leave
  <1>6. CASE pc[p] \notin Locked
    <2>1. stateLock' = stateLock
      BY <1>6 DEF Crash, Inductive, StateLockExcludes
    <2> QED
      BY <1>1, <1>2, <1>3, <1>4, <1>6, <2>1, StayOutside
  <1> QED
    BY <1>5, <1>6

LEMMA RecoverStateLockKeeps ==
    ASSUME Inductive, RecoverStateLock
    PROVE  Inductive'
  <1>1. \A q \in Procs : pc'[q] \notin Locked
    BY ProcessAssumption
       DEF RecoverStateLock, OwnerDead, Inductive, StateLockExcludes
  <1>2. TypeOK' /\ StateLockExcludes'
    BY <1>1, ProcessAssumption
       DEF RecoverStateLock, Inductive, TypeOK, StateLockExcludes, files
  <1>3. FilesCoherent' /\ SeenInHistory'
    BY FilesUntouched DEF RecoverStateLock, Inductive, SeenInHistory, files
  <1> QED
    BY <1>1, <1>2, <1>3, OutsideLocal DEF Inductive

-----------------------------------------------------------------------------
(* Steps inside the lock that write no file.                               *)

\* Changing nothing in a job but held and event.
LEMMA JobMoves ==
    ASSUME Inductive, NEW p \in Procs, NEW c \in ContractRef, NEW n \in Nat,
           UNCHANGED files,
           \/ job' = job
           \/ job' = [job EXCEPT ![p].held = c]
           \/ job' = [job EXCEPT ![p].held = c, ![p].event = n]
    PROVE  /\ job' \in [Procs -> JobRecord]
           /\ SeenInHistory'
           /\ job'[p].snapshot = job[p].snapshot
           /\ job'[p].candidate = job[p].candidate
  <1>0. job \in [Procs -> JobRecord]
    BY DEF Inductive, TypeOK
  <1> DEFINE j1 == [job EXCEPT ![p].held = c]
             j2 == [job EXCEPT ![p].held = c, ![p].event = n]
  <1>1. job' \in [Procs -> JobRecord]
    <2>1. j1 \in [Procs -> JobRecord] /\ j2 \in [Procs -> JobRecord]
      BY <1>0, JobType
    <2> HIDE DEF j1, j2
    <2>2. job' = job \/ job' = j1 \/ job' = j2
      BY DEF j1, j2
    <2> QED
      BY <1>0, <2>1, <2>2
  <1>2. /\ \A q \in Procs : job'[q].seen = job[q].seen
        /\ job'[p].snapshot = job[p].snapshot
        /\ job'[p].candidate = job[p].candidate
    BY <1>0 DEF JobRecord
  <1> QED
    BY <1>1, <1>2 DEF Inductive, SeenInHistory, files

LEMMA EnterFacts ==
    ASSUME Inductive, NEW p \in Procs, NEW c \in ContractRef, NEW ok, NEW next \in Locked,
           EnterContract(p, c, ok, next)
    PROVE  /\ c \in Contracts
           /\ pc' = [pc EXCEPT ![p] = IF ok THEN next ELSE "drop"]
           /\ (IF ok THEN next ELSE "drop") \in Locked
           /\ pc'[p] = IF ok THEN next ELSE "drop"
           /\ stateLock' = stateLock
           /\ contractLock' \in [Contracts -> Procs \cup {Free, Stale}]
           /\ job' \in [Procs -> JobRecord]
           /\ SeenInHistory'
           /\ job'[p].held = c
           /\ job'[p].snapshot = job[p].snapshot
           /\ job'[p].candidate = job[p].candidate
           /\ faults' \in Nat
           /\ UNCHANGED files
  <1>1. c \in Contracts
    BY DEF EnterContract, ContractRef
  <1>2. job' = [job EXCEPT ![p].held = c] /\ UNCHANGED files
    BY DEF EnterContract, files
  <1>3. /\ job' \in [Procs -> JobRecord] /\ SeenInHistory'
        /\ job'[p].snapshot = job[p].snapshot /\ job'[p].candidate = job[p].candidate
    BY <1>2, JobMoves, 0 \in Nat
  <1>4. job'[p].held = c
    BY <1>2 DEF Inductive, TypeOK, JobRecord
  <1>5. (IF ok THEN next ELSE "drop") \in Locked
    BY DEF Locked
  <1>6. pc'[p] = IF ok THEN next ELSE "drop"
    BY <1>5 DEF EnterContract, Goto, Inductive, TypeOK
  <1> QED
    BY <1>1, <1>2, <1>3, <1>4, <1>5, <1>6
       DEF EnterContract, TakeContractLock, Goto, Inductive, TypeOK

\* On the way to "drop" or "unlock" a command claims nothing.
LEMMA ExitLocal ==
    ASSUME NEW p \in Procs, pc'[p] \in {"drop", "unlock", "recovered", "recoverUnlock", "recover"}
    PROVE  CopyCurrent(p)' /\ RecordInPlace(p)' /\ WritesDone(p)'
  BY DEF CopyCurrent, RecordInPlace, WritesDone, BeforeAppend, Appended,
         HoldsOldCopy, StartTry, StartCleanup

LEMMA RecoverNextKeeps ==
    ASSUME Inductive, NEW p \in Procs, RecoverNext(p)
    PROVE  Inductive'
  <1> PICK e \in NextSeen(p) :
            /\ At(p, "recover")
            /\ contractLock' = IF state.audits[e].contract = NoContract THEN contractLock
                               ELSE [contractLock EXCEPT ![state.audits[e].contract] = p]
            /\ job' = [job EXCEPT ![p].held = state.audits[e].contract, ![p].event = e]
            /\ Goto(p, "resolve")
            /\ UNCHANGED <<files, stateLock, faults>>
    BY Zenon DEF RecoverNext
  <1> DEFINE c == state.audits[e].contract
  <1>1. e \in DOMAIN state.audits /\ e \in Nat
    BY DEF NextSeen, Inductive, SeenInHistory, TypeOK, JobRecord
  <1>2. c \in ContractRef
    BY <1>1, AuditAt DEF Inductive, TypeOK
  <1>3. contractLock' \in [Contracts -> Procs \cup {Free, Stale}]
    BY <1>2 DEF Inductive, TypeOK, ContractRef
  <1>4. UNCHANGED files /\ stateLock' = stateLock /\ faults' \in Nat
        /\ job' = [job EXCEPT ![p].held = c, ![p].event = e]
    BY DEF files, Inductive, TypeOK
  <1>5. job' \in [Procs -> JobRecord] /\ SeenInHistory'
    BY <1>1, <1>2, <1>4, JobMoves
  <1>6. "resolve" \in Locked /\ pc[p] \in Locked /\ pc' = [pc EXCEPT ![p] = "resolve"]
    BY DEF At, Goto, Locked, Writing
  <1>7. pc'[p] = "resolve" /\ job'[p].event = e
    BY <1>4, <1>6 DEF Inductive, TypeOK, JobRecord
  <1>8. CopyCurrent(p)' /\ RecordInPlace(p)' /\ WritesDone(p)'
    BY <1>1, <1>4, <1>7 DEF CopyCurrent, RecordInPlace, WritesDone, BeforeAppend,
         Appended, HoldsOldCopy, StartTry, StartCleanup, files
  <1> QED
    BY <1>3, <1>4, <1>5, <1>6, <1>8, MoveInside

LEMMA LeaveContractKeeps ==
    ASSUME Inductive, NEW p \in Procs, RecoverLeave(p) \/ Drop(p)
    PROVE  Inductive'
  <1>1. PICK l \in {"recoverUnlock", "recover", "unlock"} : pc' = [pc EXCEPT ![p] = l]
    BY DEF RecoverLeave, Drop, Goto
  <1>2. l \in Locked /\ pc[p] \in Locked
    BY DEF RecoverLeave, Drop, At, Locked
  <1>3. job[p].held \in ContractRef
    BY DEF Inductive, TypeOK, JobRecord
  <1>4. contractLock' \in [Contracts -> Procs \cup {Free, Stale}]
    BY <1>3 DEF RecoverLeave, Drop, Inductive, TypeOK, ContractRef
  <1>5. UNCHANGED files /\ stateLock' = stateLock /\ faults' \in Nat
    BY DEF RecoverLeave, Drop, files, Inductive, TypeOK
  <1>6. job' \in [Procs -> JobRecord] /\ SeenInHistory'
    <2>1. \/ job' = [job EXCEPT ![p].held = NoContract]
          \/ job' = [job EXCEPT ![p].held = NoContract, ![p].event = 0]
      BY DEF RecoverLeave, Drop
    <2> QED
      BY <1>5, <2>1, JobMoves, 0 \in Nat, NoContract \in ContractRef DEF ContractRef
  <1>7. CopyCurrent(p)' /\ RecordInPlace(p)' /\ WritesDone(p)'
    <2>1. pc'[p] = l
      BY <1>1 DEF Inductive, TypeOK
    <2> QED
      BY <2>1, ExitLocal
  <1> QED
    BY <1>1, <1>2, <1>4, <1>5, <1>6, <1>7, MoveInside

LEMMA GiveUpKeeps ==
    ASSUME Inductive, NEW p \in Procs, ContractLockBusy(p) \/ StartReturn(p)
    PROVE  Inductive'
  <1>1. pc' = [pc EXCEPT ![p] = "unlock"] /\ "unlock" \in Locked
    BY DEF ContractLockBusy, StartReturn, Goto, Locked
  <1>2. pc[p] \in Locked
    BY DEF ContractLockBusy, StartReturn, Wanted, At, Locked
  <1>3. /\ UNCHANGED files /\ stateLock' = stateLock /\ faults' \in Nat
        /\ contractLock' \in [Contracts -> Procs \cup {Free, Stale}] /\ job' = job
    BY DEF ContractLockBusy, StartReturn, files, locks, Inductive, TypeOK
  <1>4. job' \in [Procs -> JobRecord] /\ SeenInHistory'
    BY <1>3 DEF Inductive, TypeOK, SeenInHistory, files
  <1>5. CopyCurrent(p)' /\ RecordInPlace(p)' /\ WritesDone(p)'
    <2>1. pc'[p] = "unlock"
      BY <1>1 DEF Inductive, TypeOK
    <2> QED
      BY <2>1, ExitLocal
  <1> QED
    BY <1>1, <1>2, <1>3, <1>4, <1>5, MoveInside

\* Entering a contract lock, whatever the command then claims.
LEMMA EnterKeeps ==
    ASSUME Inductive, NEW p \in Procs, pc[p] \in Locked,
           NEW c \in ContractRef, NEW ok, NEW next \in Locked,
           EnterContract(p, c, ok, next),
           ok => CopyCurrent(p)' /\ RecordInPlace(p)' /\ WritesDone(p)'
    PROVE  Inductive'
  <1> DEFINE l == IF ok THEN next ELSE "drop"
  <1>1. CopyCurrent(p)' /\ RecordInPlace(p)' /\ WritesDone(p)'
    <2>1. CASE ~ok
      BY <2>1, EnterFacts, ExitLocal
    <2> QED
      BY <2>1
  <1>2. pc' = [pc EXCEPT ![p] = l] /\ l \in Locked
    BY EnterFacts
  <1> HIDE DEF l
  <1> QED
    BY <1>1, <1>2, EnterFacts, MoveInside

LEMMA PointedType ==
    ASSUME TypeOK
    PROVE  Pointed(state) \in ContractRef
  BY DEF TypeOK, Pointed, StateFile, ContractRef

\* A contract whose lock is entered before anything is appended.
LEMMA DecidedEnter ==
    ASSUME Inductive, NEW p \in Procs, NEW c \in ContractRef, NEW ok, NEW next \in Locked,
           pc[p] \in BeforeAppend, EnterContract(p, c, ok, next), ok
    PROVE  /\ job'[p].snapshot = state' /\ PendingEvents(state') = {}
           /\ pc'[p] = next
           /\ job'[p].held = c /\ c \in Contracts
           /\ job'[p].candidate = job[p].candidate
           /\ state' = state /\ contract' = contract
  <1>0. pc' = [pc EXCEPT ![p] = IF ok THEN next ELSE "drop"]
    BY DEF EnterContract, Goto
  <1>1. /\ pc'[p] = next /\ job'[p].held = c /\ c \in Contracts
        /\ job'[p].snapshot = job[p].snapshot
        /\ job'[p].candidate = job[p].candidate /\ UNCHANGED files
    <2>1. pc'[p] = next
      BY <1>0 DEF Inductive, TypeOK
    <2>2. /\ job'[p].held = c /\ c \in Contracts
          /\ job'[p].snapshot = job[p].snapshot
          /\ job'[p].candidate = job[p].candidate /\ UNCHANGED files
      BY EnterFacts
    <2> QED
      BY <2>1, <2>2
  <1>2. job[p].snapshot = state /\ PendingEvents(state) = {}
    BY DEF Inductive, CopyCurrent
  <1> QED
    BY <1>1, <1>2 DEF files

LEMMA StartCoherenceKeeps ==
    ASSUME Inductive, NEW p \in Procs, StartCoherence(p)
    PROVE  Inductive'
  <1> DEFINE c == Pointed(state)
             ok == contract[c].status = state.phase
  <1>1. EnterContract(p, c, ok, "coherenceDone") /\ c \in ContractRef
    BY PointedType DEF StartCoherence, Inductive
  <1>2. pc[p] \in BeforeAppend /\ pc[p] \in Locked /\ "coherenceDone" \in Locked
    BY DEF StartCoherence, At, BeforeAppend, Locked
  <1> HIDE DEF c, ok
  <1>3. ASSUME ok PROVE CopyCurrent(p)' /\ RecordInPlace(p)' /\ WritesDone(p)'
    <2>1. /\ job'[p].snapshot = state' /\ PendingEvents(state') = {}
          /\ pc'[p] = "coherenceDone"
      BY <1>1, <1>2, <1>3, DecidedEnter
    <2> QED
      BY <2>1 DEF CopyCurrent, RecordInPlace, WritesDone, BeforeAppend, Appended,
                  HoldsOldCopy, StartTry, StartCleanup
  <1> QED
    BY <1>1, <1>2, <1>3, EnterKeeps

LEMMA StartEnterKeeps ==
    ASSUME Inductive, NEW p \in Procs, StartAdmit(p) \/ StartLose(p)
    PROVE  Inductive'
  <1> DEFINE c == job[p].candidate
             ok == ArtifactsAbsent(c)
  <1>1. c \in ContractRef
    BY DEF Inductive, TypeOK, JobRecord
  <1>2. pc[p] \in BeforeAppend /\ pc[p] \in Locked
    BY DEF StartAdmit, StartLose, At, BeforeAppend, Locked
  <1>3. CASE StartAdmit(p)
    <2>1. EnterContract(p, c, ok, "startPersist") /\ "startPersist" \in Locked
          /\ state.phase # "active"
      BY <1>3 DEF StartAdmit, Locked, Writing
    <2> HIDE DEF c, ok
    <2>2. ASSUME ok PROVE CopyCurrent(p)' /\ RecordInPlace(p)' /\ WritesDone(p)'
      <3>1. /\ job'[p].snapshot = state' /\ PendingEvents(state') = {}
            /\ pc'[p] = "startPersist" /\ c \in Contracts
            /\ job'[p].candidate = job[p].candidate
            /\ state' = state
        BY <1>1, <1>2, <2>1, <2>2, DecidedEnter
      <3>2. state.active = NoContract
        BY <2>1 DEF Inductive, FilesCoherent
      <3> QED
        BY <3>1, <3>2 DEF CopyCurrent, RecordInPlace, WritesDone, BeforeAppend, Appended,
                    HoldsOldCopy, StartTry, StartCleanup, c
    <2> QED
      BY <1>1, <1>2, <2>1, <2>2, EnterKeeps
  <1>4. CASE StartLose(p)
    <2>1. EnterContract(p, c, ok, "rejectPersist") /\ "rejectPersist" \in Locked
      BY <1>4 DEF StartLose, Locked, Writing
    <2> HIDE DEF c, ok
    <2>2. ASSUME ok PROVE CopyCurrent(p)' /\ RecordInPlace(p)' /\ WritesDone(p)'
      <3>1. /\ job'[p].snapshot = state' /\ PendingEvents(state') = {}
            /\ pc'[p] = "rejectPersist" /\ c \in Contracts
            /\ job'[p].held = c
        BY <1>1, <1>2, <2>1, <2>2, DecidedEnter
      <3> QED
        BY <3>1 DEF CopyCurrent, RecordInPlace, WritesDone, BeforeAppend, Appended,
                    HoldsOldCopy, StartTry, StartCleanup
    <2> QED
      BY <1>1, <1>2, <2>1, <2>2, EnterKeeps
  <1> QED
    BY <1>3, <1>4

LEMMA AmendEnterKeeps ==
    ASSUME Inductive, NEW p \in Procs, AmendEnter(p)
    PROVE  Inductive'
  <1> DEFINE c == Pointed(state)
  <1> DEFINE ok == /\ contract[c].status = "active"
                   /\ ~ReplaysRecoveredAmend(p)
                   /\ contract[c].budget # job[p].ask
  <1>1. EnterContract(p, c, ok, "amendPersist") /\ c \in ContractRef
    BY PointedType DEF AmendEnter, Inductive
  <1>2. pc[p] \in BeforeAppend /\ pc[p] \in Locked /\ "amendPersist" \in Locked
    BY DEF AmendEnter, At, BeforeAppend, Locked, Writing
  <1>3. state.phase = "active"
    BY DEF AmendEnter, At, Inductive, WritesDone
  <1>4. c = state.active /\ (ok => contract[c].status = "active")
    BY <1>3 DEF Pointed
  <1> HIDE DEF c, ok
  <1>5. ASSUME ok PROVE CopyCurrent(p)' /\ RecordInPlace(p)' /\ WritesDone(p)'
    <2>1. /\ job'[p].snapshot = state' /\ PendingEvents(state') = {}
          /\ pc'[p] = "amendPersist" /\ c \in Contracts /\ job'[p].held = c
          /\ state' = state /\ contract' = contract
      BY <1>1, <1>2, <1>5, DecidedEnter
    <2> QED
      BY <1>4, <1>5, <2>1 DEF CopyCurrent, RecordInPlace, WritesDone, BeforeAppend, Appended,
                  HoldsOldCopy, StartTry, StartCleanup
  <1> QED
    BY <1>1, <1>2, <1>5, EnterKeeps

LEMMA CloseEnterKeeps ==
    ASSUME Inductive, NEW p \in Procs, CloseEnter(p)
    PROVE  Inductive'
  <1> DEFINE c == Pointed(state)
             ok == contract[c].status = "active"
  <1>1. EnterContract(p, c, ok, "closePersist") /\ c \in ContractRef
    BY PointedType DEF CloseEnter, Inductive
  <1>2. pc[p] \in BeforeAppend /\ pc[p] \in Locked /\ "closePersist" \in Locked
    BY DEF CloseEnter, At, BeforeAppend, Locked, Writing
  <1>3. c = state.active
    BY DEF CloseEnter, At, Inductive, WritesDone, Pointed
  <1> HIDE DEF c, ok
  <1>4. ASSUME ok PROVE CopyCurrent(p)' /\ RecordInPlace(p)' /\ WritesDone(p)'
    <2>1. /\ job'[p].snapshot = state' /\ PendingEvents(state') = {}
          /\ pc'[p] = "closePersist" /\ c \in Contracts /\ job'[p].held = c
          /\ state' = state
      BY <1>1, <1>2, <1>4, DecidedEnter
    <2> QED
      BY <1>3, <2>1 DEF CopyCurrent, RecordInPlace, WritesDone, BeforeAppend, Appended,
                  HoldsOldCopy, StartTry, StartCleanup
  <1> QED
    BY <1>1, <1>2, <1>4, EnterKeeps

LEMMA CloseRejectKeeps ==
    ASSUME Inductive, NEW p \in Procs, CloseReject(p)
    PROVE  Inductive'
  <1> DEFINE c == Pointed(state)
             ok == contract[c].status = "closed"
  <1>1. EnterContract(p, c, ok, "rejectPersist") /\ c \in ContractRef
    BY PointedType DEF CloseReject, Inductive
  <1>2. pc[p] \in BeforeAppend /\ pc[p] \in Locked /\ "rejectPersist" \in Locked
    BY DEF CloseReject, At, BeforeAppend, Locked, Writing
  <1> HIDE DEF c, ok
  <1>3. ASSUME ok PROVE CopyCurrent(p)' /\ RecordInPlace(p)' /\ WritesDone(p)'
    <2>1. /\ job'[p].snapshot = state' /\ PendingEvents(state') = {}
          /\ pc'[p] = "rejectPersist" /\ c \in Contracts /\ job'[p].held = c
      BY <1>1, <1>2, <1>3, DecidedEnter
    <2> QED
      BY <2>1 DEF CopyCurrent, RecordInPlace, WritesDone, BeforeAppend, Appended,
                  HoldsOldCopy, StartTry, StartCleanup
  <1> QED
    BY <1>1, <1>2, <1>3, EnterKeeps

LEMMA DecideKeeps ==
    ASSUME Inductive, NEW p \in Procs, Decide(p)
    PROVE  Inductive'
  <1> DEFINE l == IF NoPendingAudits THEN Branch(p) ELSE "unlock"
  <1>1. l \in {"initWrite", "unlock", "coherent", "coherence", "amend", "close", "rejectClose"}
    BY DEF Branch
  <1>2. /\ l \in Locked /\ pc[p] \in Locked
        /\ pc' = [pc EXCEPT ![p] = l]
    BY <1>1 DEF Decide, At, Goto, Locked, Writing
  <1>3. pc'[p] = l
    BY <1>2 DEF Inductive, TypeOK
  <1>4. PICK b \in BudgetRef, c \in ContractRef :
            job' = [job EXCEPT ![p].snapshot = state, ![p].ask = b, ![p].candidate = c]
    BY DEF Decide, Asks, Fresh, Candidates, BudgetRef, ContractRef
  <1>5. job' \in [Procs -> JobRecord]
    BY <1>4, JobType DEF Inductive, TypeOK
  <1>6. job'[p].snapshot = state /\ \A q \in Procs : job'[q].seen = job[q].seen
    BY <1>4 DEF Inductive, TypeOK, JobRecord
  <1>7. UNCHANGED files /\ UNCHANGED <<stateLock, contractLock, faults>>
    BY DEF Decide, locks
  <1>8. SeenInHistory'
    BY <1>6, <1>7 DEF Inductive, SeenInHistory, files
  <1>9. CopyCurrent(p)' /\ RecordInPlace(p)' /\ WritesDone(p)'
    <2>1. l # "unlock" => PendingEvents(state) = {}
      BY DEF NoPendingAudits, HasPending
    <2>2. l \in {"amend", "close"} => state.phase = "active"
      BY DEF Branch
    <2>3. l = "initWrite" => state.phase = "absent"
      BY DEF Branch
    <2> HIDE DEF l
    <2> QED
      BY <1>1, <1>3, <1>6, <1>7, <2>1, <2>2, <2>3
         DEF CopyCurrent, RecordInPlace, WritesDone, BeforeAppend, Appended,
             HoldsOldCopy, StartTry, StartCleanup, files
  <1> HIDE DEF l
  <1> QED
    BY <1>2, <1>5, <1>7, <1>8, <1>9, MoveInside DEF Inductive, TypeOK

LEMMA StartCoherenceDoneKeeps ==
    ASSUME Inductive, NEW p \in Procs, StartCoherenceDone(p)
    PROVE  Inductive'
  <1>1. /\ "coherent" \in Locked /\ pc[p] \in Locked /\ pc[p] \in BeforeAppend
        /\ pc' = [pc EXCEPT ![p] = "coherent"]
    BY DEF StartCoherenceDone, At, Goto, Locked, BeforeAppend
  <1>2. /\ job' = [job EXCEPT ![p].held = NoContract]
        /\ UNCHANGED files /\ UNCHANGED <<stateLock, faults>>
        /\ contractLock' \in [Contracts -> Procs \cup {Free, Stale}]
    BY DEF StartCoherenceDone, DropContractLock, Inductive, TypeOK
  <1>3. /\ job' \in [Procs -> JobRecord] /\ SeenInHistory'
        /\ job'[p].snapshot = job[p].snapshot
    BY <1>2, JobMoves, 0 \in Nat, NoContract \in ContractRef DEF ContractRef
  <1>4. CopyCurrent(p)' /\ RecordInPlace(p)' /\ WritesDone(p)'
    <2>1. pc'[p] = "coherent"
      BY <1>1 DEF Inductive, TypeOK
    <2>2. job'[p].snapshot = state' /\ PendingEvents(state') = {}
      BY <1>1, <1>2, <1>3 DEF Inductive, CopyCurrent, files
    <2> QED
      BY <2>1, <2>2 DEF CopyCurrent, RecordInPlace, WritesDone, BeforeAppend, Appended,
                  HoldsOldCopy, StartTry, StartCleanup
  <1> QED
    BY <1>1, <1>2, <1>3, <1>4, MoveInside DEF Inductive, TypeOK

LEMMA CloseReleaseKeeps ==
    ASSUME Inductive, NEW p \in Procs, CloseRelease(p)
    PROVE  Inductive'
  <1>1. /\ "closeState" \in Locked /\ pc[p] \in Locked /\ pc[p] = "closeRelease"
        /\ pc' = [pc EXCEPT ![p] = "closeState"]
    BY DEF CloseRelease, At, Goto, Locked, Writing
  <1>2. /\ job' = [job EXCEPT ![p].held = NoContract]
        /\ UNCHANGED files /\ UNCHANGED <<stateLock, faults>>
        /\ contractLock' \in [Contracts -> Procs \cup {Free, Stale}]
    BY DEF CloseRelease, DropContractLock, Inductive, TypeOK
  <1>3. /\ job' \in [Procs -> JobRecord] /\ SeenInHistory'
        /\ job'[p].snapshot = job[p].snapshot
    BY <1>2, JobMoves, 0 \in Nat, NoContract \in ContractRef DEF ContractRef
  <1>4. job'[p].event = job[p].event
    BY <1>2 DEF Inductive, TypeOK, JobRecord
  <1>5. CopyCurrent(p)' /\ RecordInPlace(p)' /\ WritesDone(p)'
    <2>1. pc'[p] = "closeState"
      BY <1>1 DEF Inductive, TypeOK
    <2>2. CopyCurrent(p) /\ RecordInPlace(p) /\ WritesDone(p)
      BY DEF Inductive
    <2>3. state' = state /\ contract' = contract /\ Subject(p)' = Subject(p)
      BY <1>2, <1>4 DEF files, Subject
    <2>4. CopyCurrent(p)'
      BY <1>1, <1>3, <1>4, <2>1, <2>2, <2>3 DEF CopyCurrent, BeforeAppend, HoldsOldCopy
    <2>5. RecordInPlace(p)'
      BY <1>1, <1>3, <1>4, <2>1, <2>2, <2>3
         DEF RecordInPlace, WritesDone, Appended, StartTry, StartCleanup
    <2>6. WritesDone(p)'
      BY <1>1, <2>1, <2>2, <2>3
         DEF WritesDone, RecordInPlace, StartTry, StartCleanup
    <2> QED
      BY <2>4, <2>5, <2>6
  <1> QED
    BY <1>1, <1>2, <1>3, <1>5, MoveInside DEF Inductive, TypeOK

LEMMA WriteFailsKeeps ==
    ASSUME Inductive, NEW p \in Procs, WriteFails(p)
    PROVE  Inductive'
  <1> DEFINE l == IF pc[p] \in StartTry THEN "startCatch" ELSE "drop"
  <1>1. /\ l \in Locked /\ pc[p] \in Locked /\ pc' = [pc EXCEPT ![p] = l]
    BY DEF WriteFails, Goto, Locked, Writing, StartCleanup
  <1>2. /\ UNCHANGED files /\ UNCHANGED <<stateLock, contractLock, job>> /\ faults' \in Nat
    BY DEF WriteFails, locks, Inductive, TypeOK
  <1>3. pc'[p] = l
    BY <1>1 DEF Inductive, TypeOK
  <1>4. job' \in [Procs -> JobRecord] /\ SeenInHistory'
    BY <1>2 DEF Inductive, TypeOK, SeenInHistory, files
  <1>5. CopyCurrent(p)' /\ RecordInPlace(p)' /\ WritesDone(p)'
    <2>1. CASE pc[p] \in StartTry
      <3>1. pc'[p] = "startCatch" /\ state' = state /\ Subject(p)' = Subject(p)
        BY <1>2, <1>3, <2>1 DEF files, Subject
      <3>2. /\ job[p].event \in PendingEvents(state) /\ Subject(p) = job[p].candidate
            /\ job[p].candidate \in Contracts
        BY <2>1 DEF Inductive, RecordInPlace, WritesDone, Appended
      <3> QED
        BY <1>2, <3>1, <3>2 DEF CopyCurrent, RecordInPlace, WritesDone, BeforeAppend,
                    Appended, HoldsOldCopy, StartTry, StartCleanup
    <2>2. CASE pc[p] \notin StartTry
      BY <1>3, <2>2, ExitLocal
    <2> QED
      BY <2>1, <2>2
  <1> HIDE DEF l
  <1> QED
    BY <1>1, <1>2, <1>4, <1>5, MoveInside DEF Inductive, TypeOK

-----------------------------------------------------------------------------
(* Appending the write-ahead record.                                       *)

\* The append: only the new record is pending, and the command's copy is the
\* file without it.
LEMMA AppendStep ==
    ASSUME Inductive, NEW p \in Procs, pc[p] \in BeforeAppend,
           NEW r \in AuditRecord, r.outcome = "pending", r.op # "init",
           PersistAudit(p, r), UNCHANGED <<contract, baseline>>
    PROVE  /\ state' \in StateFile
           /\ job' \in [Procs -> JobRecord]
           /\ SeenInHistory'
           /\ FilesCoherent'
           /\ job'[p].snapshot = state
           /\ PendingEvents(state) = {}
           /\ job'[p].event = Len(state.audits) + 1
           /\ job'[p].event \in PendingEvents(state')
           /\ state' = Append1(job'[p].snapshot, state'.audits[job'[p].event])
           /\ state'.audits[job'[p].event] = r
           /\ job'[p].candidate = job[p].candidate
           /\ job'[p].held = job[p].held
           /\ state'.active = state.active
  <1> DEFINE n == Len(state.audits)
  <1>1. job[p].snapshot = state /\ PendingEvents(state) = {} /\ state \in StateFile
    BY DEF Inductive, CopyCurrent, TypeOK
  <1>2. /\ state' = Append1(state, r) /\ job' = [job EXCEPT ![p].event = n + 1]
    BY DEF PersistAudit
  <1>3. /\ state' \in StateFile /\ n \in Nat
        /\ state'.phase = state.phase /\ state'.active = state.active
        /\ DOMAIN state'.audits = 1..(n + 1) /\ DOMAIN state.audits = 1..n
        /\ \A e \in DOMAIN state.audits : state'.audits[e] = state.audits[e]
        /\ state'.audits[n + 1] = r
    BY <1>1, <1>2, AppendStore
  <1>4. /\ job' \in [Procs -> JobRecord]
        /\ job'[p].snapshot = job[p].snapshot /\ job'[p].event = n + 1
        /\ job'[p].candidate = job[p].candidate /\ job'[p].held = job[p].held
        /\ \A q \in Procs : job'[q].seen = job[q].seen
    <2>1. job \in [Procs -> JobRecord] /\ n + 1 \in Nat
      BY <1>3 DEF Inductive, TypeOK
    <2>2. job' \in [Procs -> JobRecord]
      BY <1>2, <2>1, JobType
    <2> QED
      BY <1>2, <2>1, <2>2 DEF JobRecord
  <1>5. SeenInHistory'
    BY <1>3, <1>4 DEF Inductive, SeenInHistory
  <1>6. FilesCoherent'
    <2>1. \A c \in Contracts : contract[c].status = "active" <=> state.active = c
      BY <1>1 DEF Inductive, FilesCoherent, Named
    <2>2. \A e \in DOMAIN state'.audits :
             state'.audits[e].op = "init" => state'.audits[e].contract = NoContract
      BY <1>3 DEF Inductive, FilesCoherent
    <2> QED
      BY <1>3, <2>1, <2>2 DEF Inductive, FilesCoherent
  <1>7. n + 1 \in PendingEvents(state')
    BY <1>3 DEF PendingEvents
  <1> QED
    BY <1>1, <1>2, <1>3, <1>4, <1>5, <1>6, <1>7

\* A step inside the lock from its parts.
LEMMA StepInside ==
    ASSUME Inductive, NEW p \in Procs, NEW l \in Locked, pc[p] \in Locked,
           pc' = [pc EXCEPT ![p] = l], UNCHANGED <<locks, faults>>,
           state' \in StateFile, contract' \in [Contracts -> ContractFile],
           baseline' \in [Contracts -> BOOLEAN], job' \in [Procs -> JobRecord],
           SeenInHistory', FilesCoherent',
           CopyCurrent(p)', RecordInPlace(p)', WritesDone(p)'
    PROVE  Inductive'
  <1>1. StateLockExcludes' /\ pc' \in [Procs -> PCs] /\ \A q \in Procs \ {p} : pc'[q] = pc[q]
    BY StayLocked DEF Inductive, locks
  <1>2. TypeOK'
    BY <1>1 DEF Inductive, TypeOK, locks
  <1> QED
    BY <1>1, <1>2, Conclude

LEMMA StartPersistKeeps ==
    ASSUME Inductive, NEW p \in Procs, StartPersist(p)
    PROVE  Inductive'
  <1> DEFINE c == job[p].candidate
             r == NewAudit("start", c, state.phase, "active", NoBudget, job[p].ask)
  <1>1. /\ "startBaseline" \in Locked /\ pc[p] \in Locked /\ pc[p] \in BeforeAppend
        /\ pc[p] = "startPersist" /\ pc' = [pc EXCEPT ![p] = "startBaseline"]
    BY DEF StartPersist, At, Goto, Locked, Writing, StartTry, BeforeAppend
  <1>2. /\ r \in AuditRecord /\ r.outcome = "pending" /\ r.op = "start" /\ r.contract = c
    <2>1. /\ c \in ContractRef /\ job[p].ask \in BudgetRef /\ state.phase \in Phases
          /\ NoBudget \in BudgetRef /\ "active" \in Phases /\ "start" \in Operations
      BY DEF Inductive, TypeOK, JobRecord, StateFile, BudgetRef, Phases, Operations
    <2> QED
      BY <2>1, NewAuditType
  <1>3. PersistAudit(p, r) /\ UNCHANGED <<contract, baseline, locks, faults>>
    BY DEF StartPersist
  <1>4. c \in Contracts /\ state.active = NoContract
    BY <1>1 DEF Inductive, WritesDone
  <1> HIDE DEF r
  <1>5. pc'[p] = "startBaseline"
    BY <1>1 DEF Inductive, TypeOK
  <1>6. CopyCurrent(p)' /\ RecordInPlace(p)' /\ WritesDone(p)'
    BY <1>1, <1>2, <1>3, <1>4, <1>5, AppendStep
       DEF CopyCurrent, RecordInPlace, WritesDone, BeforeAppend, Appended,
           HoldsOldCopy, StartTry, StartCleanup, Subject
  <1> QED
    BY <1>1, <1>2, <1>3, <1>6, AppendStep, StepInside DEF Inductive, TypeOK

LEMMA AmendPersistKeeps ==
    ASSUME Inductive, NEW p \in Procs, AmendPersist(p)
    PROVE  Inductive'
  <1> DEFINE c == job[p].held
             r == NewAudit("amend", c, "active", "active", contract[c].budget, job[p].ask)
  <1>1. /\ "amendWrite" \in Locked /\ pc[p] \in Locked /\ pc[p] \in BeforeAppend
        /\ pc[p] = "amendPersist" /\ pc' = [pc EXCEPT ![p] = "amendWrite"]
    BY DEF AmendPersist, At, Goto, Locked, Writing, BeforeAppend
  <1>2. c \in Contracts /\ state.active = c /\ contract[c].status = "active"
    BY <1>1 DEF Inductive, WritesDone
  <1>3. /\ r \in AuditRecord /\ r.outcome = "pending" /\ r.op = "amend" /\ r.contract = c
    <2>1. /\ c \in ContractRef /\ job[p].ask \in BudgetRef /\ contract[c].budget \in BudgetRef
          /\ "active" \in Phases /\ "amend" \in Operations
      BY <1>2 DEF Inductive, TypeOK, JobRecord, ContractFile, Phases, Operations
    <2> QED
      BY <2>1, NewAuditType
  <1>4. PersistAudit(p, r) /\ UNCHANGED <<contract, baseline, locks, faults>>
    BY DEF AmendPersist
  <1> HIDE DEF r
  <1>5. pc'[p] = "amendWrite"
    BY <1>1 DEF Inductive, TypeOK
  <1>6. CopyCurrent(p)' /\ RecordInPlace(p)' /\ WritesDone(p)'
    BY <1>1, <1>2, <1>3, <1>4, <1>5, AppendStep
       DEF CopyCurrent, RecordInPlace, WritesDone, BeforeAppend, Appended,
           HoldsOldCopy, StartTry, StartCleanup, Subject
  <1> QED
    BY <1>1, <1>3, <1>4, <1>6, AppendStep, StepInside DEF Inductive, TypeOK

LEMMA ClosePersistKeeps ==
    ASSUME Inductive, NEW p \in Procs, ClosePersist(p)
    PROVE  Inductive'
  <1> DEFINE c == job[p].held
             b == contract[c].budget
             r == NewAudit("close", c, "active", "closed", b, b)
  <1>1. /\ "closeWrite" \in Locked /\ pc[p] \in Locked /\ pc[p] \in BeforeAppend
        /\ pc[p] = "closePersist" /\ pc' = [pc EXCEPT ![p] = "closeWrite"]
    BY DEF ClosePersist, At, Goto, Locked, Writing, BeforeAppend
  <1>2. c \in Contracts /\ state.active = c
    BY <1>1 DEF Inductive, WritesDone
  <1>3. /\ r \in AuditRecord /\ r.outcome = "pending" /\ r.op = "close" /\ r.contract = c
    <2>1. /\ c \in ContractRef /\ b \in BudgetRef
          /\ {"active", "closed"} \subseteq Phases /\ "close" \in Operations
      BY <1>2 DEF Inductive, TypeOK, JobRecord, ContractFile, Phases, Operations
    <2> QED
      BY <2>1, NewAuditType
  <1>4. PersistAudit(p, r) /\ UNCHANGED <<contract, baseline, locks, faults>>
    BY DEF ClosePersist
  <1> HIDE DEF r
  <1>5. pc'[p] = "closeWrite"
    BY <1>1 DEF Inductive, TypeOK
  <1>6. CopyCurrent(p)' /\ RecordInPlace(p)' /\ WritesDone(p)'
    BY <1>1, <1>2, <1>3, <1>4, <1>5, AppendStep
       DEF CopyCurrent, RecordInPlace, WritesDone, BeforeAppend, Appended,
           HoldsOldCopy, StartTry, StartCleanup, Subject
  <1> QED
    BY <1>1, <1>3, <1>4, <1>6, AppendStep, StepInside DEF Inductive, TypeOK

LEMMA RejectPersistKeeps ==
    ASSUME Inductive, NEW p \in Procs, RejectPersist(p)
    PROVE  Inductive'
  <1> DEFINE c == job[p].held
             r == RejectedAudit(p)
  <1>1. /\ "rejectAbort" \in Locked /\ pc[p] \in Locked /\ pc[p] \in BeforeAppend
        /\ pc[p] = "rejectPersist" /\ pc' = [pc EXCEPT ![p] = "rejectAbort"]
    BY DEF RejectPersist, At, Goto, Locked, Writing, BeforeAppend
  <1>2. c \in Contracts
    BY <1>1 DEF Inductive, RecordInPlace
  <1>3. /\ r \in AuditRecord /\ r.outcome = "pending" /\ r.op # "init"
    <2>1. /\ c \in ContractRef /\ contract[c].budget \in BudgetRef /\ NoBudget \in BudgetRef
          /\ job[p].ask \in BudgetRef /\ state.phase \in Phases
          /\ "closed" \in Phases /\ {"start", "close"} \subseteq Operations
      BY <1>2 DEF Inductive, TypeOK, JobRecord, ContractFile, Phases, Operations, StateFile,
                  BudgetRef
    <2> QED
      BY <2>1, NewAuditType DEF RejectedAudit
  <1>4. PersistAudit(p, r) /\ UNCHANGED <<contract, baseline, locks, faults>>
    BY DEF RejectPersist
  <1> HIDE DEF r
  <1>5. pc'[p] = "rejectAbort"
    BY <1>1 DEF Inductive, TypeOK
  <1>6. CopyCurrent(p)' /\ RecordInPlace(p)' /\ WritesDone(p)'
    BY <1>1, <1>2, <1>3, <1>4, <1>5, AppendStep
       DEF CopyCurrent, RecordInPlace, WritesDone, BeforeAppend, Appended,
           HoldsOldCopy, StartTry, StartCleanup, Subject
  <1> QED
    BY <1>1, <1>3, <1>4, <1>6, AppendStep, StepInside DEF Inductive, TypeOK

LEMMA InitWriteKeeps ==
    ASSUME Inductive, NEW p \in Procs, InitWrite(p)
    PROVE  Inductive'
  <1> DEFINE s == Initialized(state)
             n == Len(state.audits)
             r == NewAudit("init", NoContract, "absent", "initialized", NoBudget, NoBudget)
  <1>1. /\ "initComplete" \in Locked /\ pc[p] \in Locked /\ pc[p] = "initWrite"
        /\ pc' = [pc EXCEPT ![p] = "initComplete"]
    BY DEF InitWrite, At, Goto, Locked, Writing
  <1>2. /\ r \in AuditRecord /\ r.outcome = "pending" /\ r.contract = NoContract
    BY NewAuditType DEF Operations, Phases, ContractRef, BudgetRef
  <1>3. /\ s \in StateFile /\ s.audits = state.audits /\ s.active = state.active
        /\ s.phase = "initialized" /\ state.phase = "absent"
    BY <1>1 DEF Inductive, TypeOK, WritesDone, Initialized, StateFile, Phases
  <1>4. /\ state' = Append1(s, r) /\ job' = [job EXCEPT ![p].event = n + 1]
        /\ UNCHANGED <<contract, baseline, locks, faults>>
    BY DEF InitWrite
  <1> HIDE DEF r, s
  <1>5. /\ state' \in StateFile /\ n \in Nat
        /\ state'.phase = "initialized" /\ state'.active = state.active
        /\ DOMAIN state'.audits = 1..(n + 1) /\ DOMAIN state.audits = 1..n
        /\ \A e \in DOMAIN state.audits : state'.audits[e] = state.audits[e]
        /\ state'.audits[n + 1] = r
    BY <1>2, <1>3, <1>4, AppendStore
  <1>6. /\ job' \in [Procs -> JobRecord] /\ job'[p].event = n + 1
        /\ \A q \in Procs : job'[q].seen = job[q].seen
    <2>1. job \in [Procs -> JobRecord] /\ n + 1 \in Nat
      BY <1>5 DEF Inductive, TypeOK
    <2>2. job' \in [Procs -> JobRecord]
      BY <1>4, <2>1, JobType
    <2> QED
      BY <1>4, <2>1, <2>2 DEF JobRecord
  <1>7. SeenInHistory'
    BY <1>5, <1>6 DEF Inductive, SeenInHistory
  <1>8. FilesCoherent'
    <2>1. \A c \in Contracts : Named(c) => Named(c)'
      BY <1>5 DEF Named, PendingEvents
    <2>2. \A e \in DOMAIN state'.audits :
             state'.audits[e].op = "init" => state'.audits[e].contract = NoContract
      BY <1>2, <1>5 DEF Inductive, FilesCoherent
    <2> QED
      BY <1>3, <1>4, <1>5, <2>1, <2>2 DEF Inductive, FilesCoherent
  <1>9. CopyCurrent(p)' /\ RecordInPlace(p)' /\ WritesDone(p)'
    <2>1. pc'[p] = "initComplete"
      BY <1>1 DEF Inductive, TypeOK
    <2>2. n + 1 \in PendingEvents(state')
      BY <1>2, <1>5 DEF PendingEvents
    <2> QED
      BY <1>2, <1>5, <1>6, <2>1, <2>2
         DEF CopyCurrent, RecordInPlace, WritesDone, BeforeAppend, Appended,
             HoldsOldCopy, StartTry, StartCleanup, Subject
  <1> QED
    BY <1>1, <1>4, <1>5, <1>6, <1>7, <1>8, <1>9, StepInside DEF Inductive, TypeOK

-----------------------------------------------------------------------------
(* Resolving a record.                                                     *)

\* Evidence that decides a record makes its contract coherent.
LEMMA EvidenceDecides ==
    ASSUME TypeOK, FilesCoherent, NEW r \in AuditRecord, r.op # "init",
           r.contract \in Contracts, Evidence(r) # "uncertain"
    PROVE  contract[r.contract].status = "active" <=> state.active = r.contract
  <1> DEFINE c == r.contract
             file == contract[c]
  <1>1. /\ state.phase = "active" <=> state.active # NoContract
        /\ c # NoContract
    BY ConstantsAssumption DEF FilesCoherent
  <1>2. r.op \in {"start", "amend", "close"}
    BY DEF AuditRecord, Operations
  <1>3. CASE r.op = "start"
    <2>1. StartOutcome(state, file, baseline[c], r) # "uncertain"
      BY <1>3 DEF Evidence, AuditOutcome
    <2> QED
      BY <1>1, <2>1 DEF StartOutcome, NoFile
  <1>4. CASE r.op = "amend"
    <2>1. AmendOutcome(state, file, r) # "uncertain"
      BY <1>4 DEF Evidence, AuditOutcome
    <2> QED
      BY <1>1, <2>1 DEF AmendOutcome
  <1>5. CASE r.op = "close"
    <2>1. CloseOutcome(state, file, r) # "uncertain"
      BY <1>5 DEF Evidence, AuditOutcome
    <2> QED
      BY <1>1, <2>1 DEF CloseOutcome
  <1> QED
    BY <1>2, <1>3, <1>4, <1>5

\* A record may be resolved once its contract agrees with the pointer.
LEMMA ResolveCoherent ==
    ASSUME TypeOK, FilesCoherent, NEW e \in DOMAIN state.audits, NEW o \in Outcomes,
           state' = Resolve(state, e, o), UNCHANGED <<contract, baseline>>,
           LET c == state.audits[e].contract
           IN  c \in Contracts => (contract[c].status = "active" <=> state.active = c)
    PROVE  FilesCoherent' /\ state' \in StateFile /\ DOMAIN state'.audits = DOMAIN state.audits
  <1>1. state \in StateFile /\ e \in Nat
    BY AuditAt DEF TypeOK
  <1>2. /\ state' \in StateFile
        /\ state'.phase = state.phase /\ state'.active = state.active
        /\ DOMAIN state'.audits = DOMAIN state.audits
        /\ \A d \in DOMAIN state.audits : state'.audits[d] =
              IF d = e THEN [state.audits[d] EXCEPT !.outcome = o] ELSE state.audits[d]
    BY <1>1, ResolveStore
  <1>3. \A d \in DOMAIN state.audits :
            /\ state'.audits[d].op = state.audits[d].op
            /\ state'.audits[d].contract = state.audits[d].contract
    <2> SUFFICES ASSUME NEW d \in DOMAIN state.audits
                 PROVE  /\ state'.audits[d].op = state.audits[d].op
                        /\ state'.audits[d].contract = state.audits[d].contract
      OBVIOUS
    <2>1. state.audits[d] \in AuditRecord
      BY <1>1, AuditAt
    <2> QED
      BY <1>2, <2>1 DEF AuditRecord
  <1>4. \A c \in Contracts : Named(c) => c = state.audits[e].contract \/ Named(c)'
    BY <1>2 DEF Named, PendingEvents
  <1> QED
    BY <1>2, <1>3, <1>4 DEF FilesCoherent

LEMMA SeenKept ==
    ASSUME SeenInHistory, DOMAIN state'.audits = DOMAIN state.audits,
           \A q \in Procs : job'[q].seen \subseteq job[q].seen
    PROVE  SeenInHistory'
  BY DEF SeenInHistory

\* A record's subject, once it is pending.
LEMMA PendingSubject ==
    ASSUME Inductive, NEW e \in PendingEvents(state)
    PROVE  /\ e \in DOMAIN state.audits
           /\ state.audits[e] \in AuditRecord
           /\ state.audits[e].outcome = "pending"
           /\ state.audits[e].op = "init" => state.audits[e].contract = NoContract
  BY AuditAt DEF Inductive, TypeOK, PendingEvents, FilesCoherent

\* A command completing its record, its contract agreeing with the pointer.
LEMMA CompletionKeeps ==
    ASSUME Inductive, NEW p \in Procs, pc[p] \in Appended, pc[p] \in Locked,
           NEW l \in {"drop", "unlock"}, Goto(p, l),
           CompleteAudit(job[p].event), UNCHANGED <<contract, baseline, locks, job, faults>>,
           Subject(p) \in Contracts =>
               (contract[Subject(p)].status = "active" <=> state.active = Subject(p))
    PROVE  Inductive'
  <1>1. job[p].event \in PendingEvents(state)
    BY DEF Inductive, RecordInPlace
  <1>2. state' = Resolve(state, job[p].event, "committed")
    BY <1>1, PendingSubject DEF CompleteAudit
  <1>3. FilesCoherent' /\ state' \in StateFile /\ DOMAIN state'.audits = DOMAIN state.audits
    BY <1>1, <1>2, PendingSubject, ResolveCoherent DEF Inductive, Subject, Outcomes
  <1>4. SeenInHistory'
    BY <1>3, SeenKept DEF Inductive
  <1>5. pc' = [pc EXCEPT ![p] = l] /\ l \in Locked /\ pc'[p] = l
    BY DEF Goto, Locked, Inductive, TypeOK
  <1>6. CopyCurrent(p)' /\ RecordInPlace(p)' /\ WritesDone(p)'
    BY <1>5, ExitLocal
  <1> QED
    BY <1>3, <1>4, <1>5, <1>6, StepInside DEF Inductive, TypeOK

LEMMA CompleteKeeps ==
    ASSUME Inductive, NEW p \in Procs,
           \/ InitComplete(p) \/ StartComplete(p) \/ AmendComplete(p) \/ CloseComplete(p)
    PROVE  Inductive'
  <1>1. /\ pc[p] \in {"initComplete", "startComplete", "amendComplete", "closeComplete"}
        /\ CompleteAudit(job[p].event)
        /\ UNCHANGED <<contract, baseline, locks, job, faults>>
    BY DEF InitComplete, StartComplete, AmendComplete, CloseComplete, At
  <1>2. pc[p] \in Appended /\ pc[p] \in Locked
    BY <1>1 DEF Appended, Locked, Writing, StartTry
  <1>3. PICK l \in {"drop", "unlock"} : Goto(p, l)
    BY DEF InitComplete, StartComplete, AmendComplete, CloseComplete
  <1>4. RecordInPlace(p) /\ WritesDone(p)
    BY DEF Inductive
  <1>5. Subject(p) \in Contracts =>
            (contract[Subject(p)].status = "active" <=> state.active = Subject(p))
    <2>1. CASE pc[p] = "initComplete"
      BY <1>4, <2>1, ConstantsAssumption DEF RecordInPlace
    <2>2. CASE pc[p] = "startComplete"
      BY <1>4, <2>2 DEF RecordInPlace, WritesDone, StartTry
    <2>3. CASE pc[p] = "amendComplete"
      BY <1>4, <2>3 DEF RecordInPlace, WritesDone
    <2>4. CASE pc[p] = "closeComplete"
      BY <1>4, <2>4, ConstantsAssumption DEF RecordInPlace, WritesDone
    <2> QED
      BY <1>1, <2>1, <2>2, <2>3, <2>4
  <1> QED
    BY <1>1, <1>2, <1>3, <1>5, CompletionKeeps

LEMMA AbortKeeps ==
    ASSUME Inductive, NEW p \in Procs, RejectAbort(p) \/ StartCatchAbort(p)
    PROVE  Inductive'
  <1> DEFINE e == job[p].event
             r == state.audits[e]
  <1>1. /\ pc[p] \in {"rejectAbort", "startCatchAbort"} /\ Goto(p, "drop")
        /\ AbortAudit(e) /\ UNCHANGED <<contract, baseline, locks, job, faults>>
    BY DEF RejectAbort, StartCatchAbort, At
  <1>2. pc[p] \in Appended /\ pc[p] \in Locked
    BY <1>1 DEF Appended, Locked, Writing, StartCleanup
  <1>3. e \in PendingEvents(state)
    BY <1>2 DEF Inductive, RecordInPlace
  <1>4. /\ e \in DOMAIN state.audits /\ r \in AuditRecord
        /\ r.op = "init" => r.contract = NoContract
    BY <1>3, PendingSubject
  <1>5. FilesCoherent' /\ state' \in StateFile /\ DOMAIN state'.audits = DOMAIN state.audits
    <2>1. CASE state' = state
      BY <1>1, <2>1, FilesUntouched DEF Inductive, TypeOK, files
    <2>2. CASE state' # state
      <3>1. state' = Resolve(state, e, "aborted") /\ Evidence(r) = "not_applied"
        BY <1>1, <2>2 DEF AbortAudit
      <3>2. r.contract \in Contracts =>
               (contract[r.contract].status = "active" <=> state.active = r.contract)
        BY <1>4, <3>1, EvidenceDecides, ConstantsAssumption DEF Inductive
      <3> QED
        BY <1>1, <1>4, <3>1, <3>2, ResolveCoherent DEF Inductive, Outcomes
    <2> QED
      BY <2>1, <2>2
  <1>6. SeenInHistory'
    BY <1>1, <1>5, SeenKept DEF Inductive
  <1>7. pc' = [pc EXCEPT ![p] = "drop"] /\ "drop" \in Locked /\ pc'[p] = "drop"
    BY <1>1 DEF Goto, Locked, Inductive, TypeOK
  <1>8. CopyCurrent(p)' /\ RecordInPlace(p)' /\ WritesDone(p)'
    BY <1>7, ExitLocal
  <1> QED
    BY <1>1, <1>2, <1>5, <1>6, <1>7, <1>8, StepInside DEF Inductive, TypeOK

LEMMA RecoverResolveKeeps ==
    ASSUME Inductive, NEW p \in Procs, RecoverResolve(p)
    PROVE  Inductive'
  <1> DEFINE e == job[p].event
             r == state.audits[e]
             undecidable == r.outcome = "pending" /\ Evidence(r) = "uncertain"
             l == IF undecidable THEN "drop" ELSE "recovered"
  <1>1. /\ pc[p] = "resolve" /\ Goto(p, l)
        /\ state' = IF r.outcome # "pending" \/ undecidable THEN state
                    ELSE Resolve(state, e, IF Evidence(r) = "applied"
                                           THEN "reconciled" ELSE "aborted")
        /\ job' = IF undecidable THEN job
                  ELSE [job EXCEPT ![p].seen = @ \ {e}, ![p].settled = @ \cup {e}]
        /\ UNCHANGED <<contract, baseline, locks, faults>>
    BY DEF RecoverResolve, At
  <1>2. e \in DOMAIN state.audits
    BY <1>1 DEF Inductive, RecordInPlace
  <1>3. /\ r \in AuditRecord /\ e \in Nat
        /\ r.op = "init" => r.contract = NoContract
    BY <1>2, AuditAt, SMTT(30) DEF Inductive, TypeOK, FilesCoherent
  <1>4. FilesCoherent' /\ state' \in StateFile /\ DOMAIN state'.audits = DOMAIN state.audits
    <2>1. CASE state' = state
      BY <1>1, <2>1, FilesUntouched DEF Inductive, TypeOK, files
    <2>2. CASE state' # state
      <3>1. PICK o \in Outcomes : state' = Resolve(state, e, o)
        BY <1>1, <2>2 DEF Outcomes
      <3>2. Evidence(r) # "uncertain"
        BY <1>1, <2>2
      <3>3. r.contract \in Contracts =>
               (contract[r.contract].status = "active" <=> state.active = r.contract)
        BY <1>3, <3>2, EvidenceDecides, ConstantsAssumption DEF Inductive
      <3> QED
        BY <1>1, <1>2, <3>1, <3>3, ResolveCoherent DEF Inductive
    <2> QED
      BY <2>1, <2>2
  <1>5. job' \in [Procs -> JobRecord] /\ \A q \in Procs : job'[q].seen \subseteq job[q].seen
    <2>1. job \in [Procs -> JobRecord]
      BY DEF Inductive, TypeOK
    <2>2. [job EXCEPT ![p].seen = @ \ {e}, ![p].settled = @ \cup {e}] \in [Procs -> JobRecord]
      BY <1>3, <2>1, JobType
    <2> HIDE DEF undecidable
    <2>3. job' \in [Procs -> JobRecord]
      BY <1>1, <2>1, <2>2
    <2>4. \A q \in Procs : job'[q].seen \subseteq job[q].seen
      BY <1>1, <2>1 DEF JobRecord
    <2> QED
      BY <2>3, <2>4
  <1>6. SeenInHistory'
    BY <1>4, <1>5, SeenKept DEF Inductive
  <1>7. pc' = [pc EXCEPT ![p] = l] /\ l \in Locked /\ pc[p] \in Locked /\ pc'[p] = l
    BY <1>1 DEF Goto, Locked, Writing, Inductive, TypeOK
  <1>8. CopyCurrent(p)' /\ RecordInPlace(p)' /\ WritesDone(p)'
    BY <1>7, ExitLocal
  <1> HIDE DEF l
  <1> QED
    BY <1>1, <1>4, <1>5, <1>6, <1>7, <1>8, StepInside DEF Inductive, TypeOK

-----------------------------------------------------------------------------
(* Writing and removing contracts and baselines.                           *)

\* While the record of a contract is pending its files may change, so long as
\* no active file is left without a baseline.
LEMMA NamedMayChange ==
    ASSUME FilesCoherent, NEW c, Named(c), state' = state,
           \A d \in Contracts \ {c} : contract'[d] = contract[d] /\ baseline'[d] = baseline[d],
           contract'[c].status = "active" => baseline'[c]
    PROVE  FilesCoherent'
  BY DEF FilesCoherent, Named, PendingEvents

\* A START between its append and its completion.
LEMMA StartRecord ==
    ASSUME Inductive, NEW p \in Procs, pc[p] \in StartTry \cup StartCleanup
    PROVE  /\ job[p].event \in PendingEvents(state)
           /\ Subject(p) = job[p].candidate
           /\ job[p].candidate \in Contracts
           /\ Named(job[p].candidate)
           /\ pc[p] \in Locked
  BY DEF Inductive, RecordInPlace, WritesDone, Appended, Named, Subject, Locked, Writing

LEMMA StartBaselineKeeps ==
    ASSUME Inductive, NEW p \in Procs, StartBaseline(p)
    PROVE  Inductive'
  <1> DEFINE c == job[p].candidate
  <1>1. /\ pc[p] = "startBaseline" /\ pc[p] \in StartTry
        /\ pc' = [pc EXCEPT ![p] = "startContract"]
        /\ baseline' = [baseline EXCEPT ![c] = TRUE]
        /\ UNCHANGED <<state, contract, locks, job, faults>>
    BY DEF StartBaseline, At, Goto, StartTry
  <1>2. /\ job[p].event \in PendingEvents(state) /\ Subject(p) = c /\ c \in Contracts
        /\ Named(c) /\ pc[p] \in Locked
    BY <1>1, StartRecord
  <1>3. /\ baseline' \in [Contracts -> BOOLEAN] /\ baseline'[c]
        /\ \A d \in Contracts \ {c} : baseline'[d] = baseline[d]
    BY <1>1, <1>2 DEF Inductive, TypeOK
  <1>4. FilesCoherent'
    BY <1>1, <1>2, <1>3, NamedMayChange DEF Inductive
  <1>5. pc'[p] = "startContract" /\ "startContract" \in Locked
    BY <1>1 DEF Inductive, TypeOK, Locked, Writing, StartTry
  <1>6. CopyCurrent(p) /\ RecordInPlace(p) /\ WritesDone(p)
    BY DEF Inductive
  <1>7. CopyCurrent(p)' /\ RecordInPlace(p)' /\ WritesDone(p)'
    BY <1>1, <1>2, <1>3, <1>5, <1>6
       DEF CopyCurrent, RecordInPlace, WritesDone, BeforeAppend, Appended,
           HoldsOldCopy, StartTry, StartCleanup, Subject
  <1> QED
    BY <1>1, <1>2, <1>3, <1>4, <1>5, <1>7, StepInside
       DEF Inductive, TypeOK, SeenInHistory

LEMMA StartContractKeeps ==
    ASSUME Inductive, NEW p \in Procs, StartContract(p)
    PROVE  Inductive'
  <1> DEFINE c == job[p].candidate
             file == [status |-> "active", budget |-> job[p].ask]
  <1>1. /\ pc[p] = "startContract" /\ pc[p] \in StartTry
        /\ pc' = [pc EXCEPT ![p] = "startActivate"]
        /\ contract' = [contract EXCEPT ![c] = file]
        /\ UNCHANGED <<state, baseline, locks, job, faults>>
    BY DEF StartContract, At, Goto, StartTry
  <1>2. /\ job[p].event \in PendingEvents(state) /\ Subject(p) = c /\ c \in Contracts
        /\ Named(c) /\ pc[p] \in Locked
    BY <1>1, StartRecord
  <1>3. file \in ContractFile
    BY DEF Inductive, TypeOK, JobRecord, ContractFile
  <1>4. /\ contract' \in [Contracts -> ContractFile]
        /\ \A d \in Contracts \ {c} : contract'[d] = contract[d]
    BY <1>1, <1>2, <1>3 DEF Inductive, TypeOK
  <1>5. CopyCurrent(p) /\ RecordInPlace(p) /\ WritesDone(p)
    BY DEF Inductive
  <1>6. FilesCoherent'
    <2>1. baseline[c]
      BY <1>1, <1>5 DEF WritesDone
    <2> QED
      BY <1>1, <1>2, <1>4, <2>1, NamedMayChange DEF Inductive
  <1>7. pc'[p] = "startActivate" /\ "startActivate" \in Locked
    BY <1>1 DEF Inductive, TypeOK, Locked, Writing, StartTry
  <1>8. CopyCurrent(p)' /\ RecordInPlace(p)' /\ WritesDone(p)'
    BY <1>1, <1>2, <1>5, <1>7
       DEF CopyCurrent, RecordInPlace, WritesDone, BeforeAppend, Appended,
           HoldsOldCopy, StartTry, StartCleanup, Subject
  <1> QED
    BY <1>1, <1>2, <1>4, <1>6, <1>7, <1>8, StepInside
       DEF Inductive, TypeOK, SeenInHistory

LEMMA StartCatchKeeps ==
    ASSUME Inductive, NEW p \in Procs, StartCatch(p)
    PROVE  Inductive'
  <1> DEFINE c == job[p].candidate
             l == IF MayRemoveArtifacts(c) THEN "startCatchBaseline" ELSE "drop"
  <1>1. /\ pc[p] = "startCatch" /\ pc[p] \in StartCleanup
        /\ pc' = [pc EXCEPT ![p] = l]
        /\ contract' = IF MayRemoveArtifacts(c)
                       THEN [contract EXCEPT ![c] = NoFile] ELSE contract
        /\ UNCHANGED <<state, baseline, locks, job, faults>>
    BY DEF StartCatch, At, Goto, StartCleanup
  <1>2. /\ job[p].event \in PendingEvents(state) /\ Subject(p) = c /\ c \in Contracts
        /\ Named(c) /\ pc[p] \in Locked
    BY <1>1, StartRecord
  <1>3. NoFile \in ContractFile /\ NoFile.status = "absent"
    BY DEF NoFile, ContractFile, BudgetRef
  <1>4. /\ contract' \in [Contracts -> ContractFile]
        /\ \A d \in Contracts \ {c} : contract'[d] = contract[d]
        /\ contract'[c] \in {contract[c], NoFile}
        /\ MayRemoveArtifacts(c) => contract'[c] = NoFile
    BY <1>1, <1>2, <1>3 DEF Inductive, TypeOK
  <1>5. FilesCoherent'
    <2>1. contract[c].status = "active" => baseline[c]
      BY <1>2 DEF Inductive, FilesCoherent
    <2> QED
      BY <1>1, <1>2, <1>3, <1>4, <2>1, NamedMayChange DEF Inductive
  <1>6. pc'[p] = l /\ l \in Locked
    BY <1>1 DEF Inductive, TypeOK, Locked, Writing, StartCleanup
  <1>7. CopyCurrent(p)' /\ RecordInPlace(p)' /\ WritesDone(p)'
    <2>1. CASE MayRemoveArtifacts(c)
      <3>1. pc'[p] = "startCatchBaseline"
        BY <1>6, <2>1
      <3> QED
        BY <1>1, <1>2, <1>3, <1>4, <2>1, <3>1
           DEF CopyCurrent, RecordInPlace, WritesDone, BeforeAppend, Appended,
               HoldsOldCopy, StartTry, StartCleanup, Subject
    <2>2. CASE ~MayRemoveArtifacts(c)
      BY <1>6, <2>2, ExitLocal
    <2> QED
      BY <2>1, <2>2
  <1> HIDE DEF l
  <1> QED
    BY <1>1, <1>2, <1>4, <1>5, <1>6, <1>7, StepInside
       DEF Inductive, TypeOK, SeenInHistory

LEMMA StartCatchBaselineKeeps ==
    ASSUME Inductive, NEW p \in Procs, StartCatchBaseline(p)
    PROVE  Inductive'
  <1> DEFINE c == job[p].candidate
  <1>1. /\ pc[p] = "startCatchBaseline" /\ pc[p] \in StartCleanup
        /\ pc' = [pc EXCEPT ![p] = "startCatchAbort"]
        /\ baseline' = [baseline EXCEPT ![c] = FALSE]
        /\ UNCHANGED <<state, contract, locks, job, faults>>
    BY DEF StartCatchBaseline, At, Goto, StartCleanup
  <1>2. /\ job[p].event \in PendingEvents(state) /\ Subject(p) = c /\ c \in Contracts
        /\ Named(c) /\ pc[p] \in Locked
    BY <1>1, StartRecord
  <1>3. /\ baseline' \in [Contracts -> BOOLEAN]
        /\ \A d \in Contracts \ {c} : baseline'[d] = baseline[d]
    BY <1>1, <1>2 DEF Inductive, TypeOK
  <1>4. FilesCoherent'
    <2>1. contract[c].status = "absent"
      BY <1>1 DEF Inductive, WritesDone
    <2> QED
      BY <1>1, <1>2, <1>3, <2>1, NamedMayChange DEF Inductive
  <1>5. pc'[p] = "startCatchAbort" /\ "startCatchAbort" \in Locked
    BY <1>1 DEF Inductive, TypeOK, Locked, Writing, StartCleanup
  <1>6. CopyCurrent(p)' /\ RecordInPlace(p)' /\ WritesDone(p)'
    BY <1>1, <1>2, <1>5
       DEF CopyCurrent, RecordInPlace, WritesDone, BeforeAppend, Appended,
           HoldsOldCopy, StartTry, StartCleanup, Subject
  <1> QED
    BY <1>1, <1>2, <1>3, <1>4, <1>5, <1>6, StepInside
       DEF Inductive, TypeOK, SeenInHistory

LEMMA AmendWriteKeeps ==
    ASSUME Inductive, NEW p \in Procs, AmendWrite(p)
    PROVE  Inductive'
  <1> DEFINE c == job[p].held
  <1>1. /\ pc[p] = "amendWrite" /\ pc[p] \in Locked
        /\ pc' = [pc EXCEPT ![p] = "amendComplete"] /\ "amendComplete" \in Locked
        /\ contract' = [contract EXCEPT ![c].budget = job[p].ask]
        /\ UNCHANGED <<state, baseline, locks, job, faults>>
    BY DEF AmendWrite, At, Goto, Locked, Writing
  <1>2. CopyCurrent(p) /\ RecordInPlace(p) /\ WritesDone(p)
    BY DEF Inductive
  <1>3. /\ job[p].event \in PendingEvents(state) /\ Subject(p) = c /\ c \in Contracts
        /\ state.active = c /\ contract[c].status = "active"
    BY <1>1, <1>2 DEF RecordInPlace, WritesDone, Appended
  <1>4. Named(c)
    BY <1>3 DEF Named, Subject
  <1>5. /\ contract' \in [Contracts -> ContractFile]
        /\ \A d \in Contracts \ {c} : contract'[d] = contract[d]
        /\ contract'[c].status = "active"
    BY <1>1, <1>3 DEF Inductive, TypeOK, ContractFile, JobRecord
  <1>6. FilesCoherent'
    <2>1. baseline[c]
      BY <1>3 DEF Inductive, FilesCoherent
    <2> QED
      BY <1>1, <1>4, <1>5, <2>1, NamedMayChange DEF Inductive
  <1>7. pc'[p] = "amendComplete"
    BY <1>1 DEF Inductive, TypeOK
  <1>8. CopyCurrent(p)' /\ RecordInPlace(p)' /\ WritesDone(p)'
    BY <1>1, <1>3, <1>5, <1>7
       DEF CopyCurrent, RecordInPlace, WritesDone, BeforeAppend, Appended,
           HoldsOldCopy, StartTry, StartCleanup, Subject
  <1> QED
    BY <1>1, <1>5, <1>6, <1>8, StepInside DEF Inductive, TypeOK, SeenInHistory

LEMMA CloseWriteKeeps ==
    ASSUME Inductive, NEW p \in Procs, CloseWrite(p)
    PROVE  Inductive'
  <1> DEFINE c == job[p].held
  <1>1. /\ pc[p] = "closeWrite" /\ pc[p] \in Locked
        /\ pc' = [pc EXCEPT ![p] = "closeRelease"] /\ "closeRelease" \in Locked
        /\ contract' = [contract EXCEPT ![c].status = "closed"]
        /\ UNCHANGED <<state, baseline, locks, job, faults>>
    BY DEF CloseWrite, At, Goto, Locked, Writing
  <1>2. CopyCurrent(p) /\ RecordInPlace(p) /\ WritesDone(p)
    BY DEF Inductive
  <1>3. /\ job[p].event \in PendingEvents(state) /\ Subject(p) = c /\ c \in Contracts
        /\ state.active = c
    BY <1>1, <1>2 DEF RecordInPlace, WritesDone, Appended
  <1>4. Named(c)
    BY <1>3 DEF Named, Subject
  <1>5. /\ contract' \in [Contracts -> ContractFile]
        /\ \A d \in Contracts \ {c} : contract'[d] = contract[d]
        /\ contract'[c].status = "closed"
    BY <1>1, <1>3 DEF Inductive, TypeOK, ContractFile
  <1>6. FilesCoherent'
    BY <1>1, <1>4, <1>5, NamedMayChange DEF Inductive
  <1>7. pc'[p] = "closeRelease"
    BY <1>1 DEF Inductive, TypeOK
  <1>8. CopyCurrent(p)' /\ RecordInPlace(p)' /\ WritesDone(p)'
    BY <1>1, <1>2, <1>3, <1>5, <1>7
       DEF CopyCurrent, RecordInPlace, WritesDone, BeforeAppend, Appended,
           HoldsOldCopy, StartTry, StartCleanup, Subject
  <1> QED
    BY <1>1, <1>5, <1>6, <1>8, StepInside DEF Inductive, TypeOK, SeenInHistory

-----------------------------------------------------------------------------
(* Moving the pointer.                                                     *)

\* Writing back a copy without pending records loses nothing the file has
\* gained since: the merged history is the file's own.
LEMMA OldCopyMerges ==
    ASSUME NEW s \in StateFile, NEW t \in StateFile, NEW r \in AuditRecord,
           t = Append1(s, r), PendingEvents(s) = {}
    PROVE  MergeAudits(t.audits, s.audits) = t.audits
  <1> DEFINE n == Len(s.audits)
  <1>1. /\ t.audits = Append(s.audits, r) /\ n \in Nat
        /\ DOMAIN t.audits = 1..(n + 1) /\ DOMAIN s.audits = 1..n
        /\ \A e \in 1..n : t.audits[e] = s.audits[e]
    BY AppendStore
  <1>2. \A e \in 1..n : s.audits[e].outcome # "pending"
    BY <1>1 DEF PendingEvents
  <1>3. DOMAIN t.audits \cup DOMAIN s.audits = 1..(n + 1)
    BY <1>1
  <1>4. MergeAudits(t.audits, s.audits) = [e \in 1..(n + 1) |-> t.audits[e]]
    BY <1>1, <1>2, <1>3 DEF MergeAudits
  <1>5. t.audits = [e \in 1..(n + 1) |-> t.audits[e]]
    <2>1. t.audits \in Seq(AuditRecord)
      BY DEF StateFile
    <2>2. Len(t.audits) = n + 1
      BY <1>1, <2>1
    <2> QED
      BY <2>1, <2>2
  <1> QED
    BY <1>4, <1>5

\* A record appended to a settled history is its only pending one.
LEMMA OnlyOwnPending ==
    ASSUME NEW s \in StateFile, NEW r \in AuditRecord, PendingEvents(s) = {}
    PROVE  \A e \in PendingEvents(Append1(s, r)) : e = Len(s.audits) + 1
  <1>1. /\ DOMAIN Append1(s, r).audits = 1..(Len(s.audits) + 1)
        /\ DOMAIN s.audits = 1..Len(s.audits) /\ Len(s.audits) \in Nat
        /\ \A e \in DOMAIN s.audits : Append1(s, r).audits[e] = s.audits[e]
    BY AppendStore
  <1>2. \A e \in 1..Len(s.audits) : s.audits[e].outcome # "pending"
    BY <1>1 DEF PendingEvents
  <1> QED
    BY <1>1, <1>2 DEF PendingEvents

\* The pointer's move keeps history, and coherence when the two contracts it
\* is about are as it says.
LEMMA PointerMoves ==
    ASSUME Inductive, NEW p \in Procs, pc[p] \in HoldsOldCopy,
           NEW next \in StateFile, next.audits = job[p].snapshot.audits,
           state' = WriteOver(state, next), UNCHANGED <<contract, baseline>>,
           next.phase = "active" <=> next.active # NoContract,
           \A c \in Contracts : contract[c].status = "active" <=> next.active = c
    PROVE  /\ state' \in StateFile /\ state'.audits = state.audits
           /\ state'.phase = next.phase /\ state'.active = next.active
           /\ FilesCoherent'
  <1> DEFINE s == job[p].snapshot
             r == state.audits[job[p].event]
  <1>1. /\ s \in StateFile /\ state \in StateFile
        /\ state = Append1(s, r) /\ PendingEvents(s) = {}
    BY DEF Inductive, TypeOK, JobRecord, CopyCurrent
  <1>2. r \in AuditRecord
    <2>1. pc[p] \in Appended
      BY DEF HoldsOldCopy, Appended, StartTry
    <2> QED
      BY <2>1, PendingSubject DEF Inductive, RecordInPlace
  <1>3. MergeAudits(state.audits, next.audits) = state.audits
    BY <1>1, <1>2, OldCopyMerges
  <1>4. state' = [next EXCEPT !.audits = state.audits]
    BY <1>3 DEF WriteOver
  <1>5. /\ state' \in StateFile /\ state'.audits = state.audits
        /\ state'.phase = next.phase /\ state'.active = next.active
    BY <1>1, <1>4 DEF StateFile
  <1>6. FilesCoherent'
    BY <1>5 DEF Inductive, FilesCoherent, Named, PendingEvents
  <1> QED
    BY <1>5, <1>6

LEMMA StartActivateKeeps ==
    ASSUME Inductive, NEW p \in Procs, StartActivate(p)
    PROVE  Inductive'
  <1> DEFINE c == job[p].candidate
             s == job[p].snapshot
             ready == /\ SamePointer(state, s)
                      /\ baseline[c]
                      /\ contract[c].status = "active"
             l == IF ready THEN "startComplete" ELSE "startCatch"
  <1>1. /\ pc[p] = "startActivate" /\ pc[p] \in StartTry
        /\ pc' = [pc EXCEPT ![p] = l]
        /\ state' = IF ready THEN WriteOver(state, ToActive(s, c)) ELSE state
        /\ UNCHANGED <<contract, baseline, locks, job, faults>>
    BY DEF StartActivate, At, Goto, StartTry
  <1>2. /\ job[p].event \in PendingEvents(state) /\ Subject(p) = c /\ c \in Contracts
        /\ Named(c) /\ pc[p] \in Locked
    BY <1>1, StartRecord
  <1>3. l \in Locked
    BY DEF Locked, Writing, StartTry, StartCleanup
  <1>4. pc'[p] = l
    BY <1>1 DEF Inductive, TypeOK
  <1>5. CASE ready
    <2>1. ready
      BY <1>5
    <2> DEFINE next == ToActive(s, c)
    <2>2. /\ next \in StateFile /\ next.audits = s.audits
          /\ next.phase = "active" /\ next.active = c
      BY <1>2 DEF Inductive, TypeOK, JobRecord, StateFile, ToActive, Phases, ContractRef
    <2>3. \A d \in Contracts : contract[d].status = "active" <=> next.active = d
      <3> SUFFICES ASSUME NEW d \in Contracts, d # c
                   PROVE  contract[d].status # "active"
        BY <2>1, <2>2
      <3>1. state.active = NoContract
        BY <1>1 DEF Inductive, WritesDone
      <3>2. ~Named(d)
        <4>1. PendingEvents(s) = {} /\ state = Append1(s, state.audits[job[p].event])
              /\ job[p].event = Len(s.audits) + 1 /\ s \in StateFile
          BY <1>1 DEF Inductive, CopyCurrent, HoldsOldCopy, TypeOK, JobRecord
        <4>2. state.audits[job[p].event] \in AuditRecord
          BY <1>2, PendingSubject
        <4>3. \A e \in PendingEvents(state) : e = job[p].event
          BY <4>1, <4>2, OnlyOwnPending
        <4> QED
          BY <1>2, <4>3 DEF Named, Subject
      <3> QED
        BY <3>1, <3>2, ConstantsAssumption DEF Inductive, FilesCoherent
    <2>4. state' = WriteOver(state, next)
      BY <1>1, <2>1
    <2>5. next.active # NoContract /\ pc[p] \in HoldsOldCopy
      BY <1>1, <1>2, <2>2, ConstantsAssumption DEF HoldsOldCopy
    <2> HIDE DEF next
    <2>6. /\ state' \in StateFile /\ state'.audits = state.audits
          /\ state'.active = c /\ FilesCoherent'
      BY <1>1, <2>2, <2>3, <2>4, <2>5, PointerMoves, SMTT(30)
    <2>7. pc'[p] = "startComplete" /\ contract'[c].status = "active"
      BY <1>1, <1>4, <2>1
    <2> HIDE DEF ready
    <2>8. CopyCurrent(p)' /\ RecordInPlace(p)' /\ WritesDone(p)'
      BY <1>1, <1>2, <2>6, <2>7
         DEF CopyCurrent, RecordInPlace, WritesDone, BeforeAppend, Appended,
             HoldsOldCopy, StartTry, StartCleanup, Subject, PendingEvents
    <2>9. SeenInHistory'
      BY <1>1, <2>6 DEF Inductive, SeenInHistory
    <2> HIDE DEF l
    <2> QED
      BY <1>1, <1>2, <1>3, <2>6, <2>8, <2>9, StepInside DEF Inductive, TypeOK
  <1>6. CASE ~ready
    <2>1. state' = state /\ pc'[p] = "startCatch"
      BY <1>1, <1>4, <1>6
    <2> HIDE DEF ready
    <2>2. FilesCoherent'
      BY <1>1, <2>1, FilesUntouched DEF Inductive, files
    <2>3. CopyCurrent(p)' /\ RecordInPlace(p)' /\ WritesDone(p)'
      BY <1>1, <1>2, <2>1
         DEF CopyCurrent, RecordInPlace, WritesDone, BeforeAppend, Appended,
             HoldsOldCopy, StartTry, StartCleanup, Subject
    <2> HIDE DEF l
    <2> QED
      BY <1>1, <1>2, <1>3, <2>1, <2>2, <2>3, StepInside
         DEF Inductive, TypeOK, SeenInHistory
  <1> QED
    BY <1>5, <1>6

LEMMA CloseStateKeeps ==
    ASSUME Inductive, NEW p \in Procs, CloseState(p)
    PROVE  Inductive'
  <1> DEFINE s == job[p].snapshot
             next == ToClosed(s)
  <1>1. /\ pc[p] = "closeState" /\ pc[p] \in Locked /\ pc[p] \in HoldsOldCopy
        /\ pc[p] \in Appended
        /\ pc' = [pc EXCEPT ![p] = "closeComplete"] /\ "closeComplete" \in Locked
        /\ state' = WriteOver(state, next)
        /\ UNCHANGED <<contract, baseline, locks, job, faults>>
    BY DEF CloseState, At, Goto, Locked, Writing, HoldsOldCopy, Appended
  <1>2. /\ job[p].event \in PendingEvents(state) /\ Subject(p) = state.active
        /\ state.active \in Contracts /\ contract[state.active].status = "closed"
    BY <1>1 DEF Inductive, RecordInPlace, WritesDone
  <1>3. /\ next \in StateFile /\ next.audits = s.audits
        /\ next.phase = "closed" /\ next.active = NoContract
    BY DEF Inductive, TypeOK, JobRecord, StateFile, ToClosed, Phases, ContractRef
  <1>4. \A d \in Contracts : contract[d].status = "active" <=> next.active = d
    <2> SUFFICES ASSUME NEW d \in Contracts, d # state.active
                 PROVE  contract[d].status # "active"
      BY <1>2, <1>3, ConstantsAssumption
    <2>1. ~Named(d)
      <3>1. PendingEvents(s) = {} /\ state = Append1(s, state.audits[job[p].event])
            /\ job[p].event = Len(s.audits) + 1 /\ s \in StateFile
        BY <1>1 DEF Inductive, CopyCurrent, TypeOK, JobRecord
      <3>2. state.audits[job[p].event] \in AuditRecord
        BY <1>2, PendingSubject
      <3>3. \A e \in PendingEvents(state) : e = job[p].event
        BY <3>1, <3>2, OnlyOwnPending
      <3> QED
        BY <1>2, <3>3 DEF Named, Subject
    <2> QED
      BY <2>1 DEF Inductive, FilesCoherent
  <1> HIDE DEF next
  <1>5. /\ state' \in StateFile /\ state'.audits = state.audits
        /\ state'.active = NoContract /\ FilesCoherent'
    BY <1>1, <1>3, <1>4, PointerMoves
  <1>6. pc'[p] = "closeComplete"
    BY <1>1 DEF Inductive, TypeOK
  <1>7. CopyCurrent(p)' /\ RecordInPlace(p)' /\ WritesDone(p)'
    BY <1>1, <1>2, <1>5, <1>6
       DEF CopyCurrent, RecordInPlace, WritesDone, BeforeAppend, Appended,
           HoldsOldCopy, StartTry, StartCleanup, Subject, PendingEvents
  <1>8. SeenInHistory'
    BY <1>1, <1>5 DEF Inductive, SeenInHistory
  <1> QED
    BY <1>1, <1>5, <1>7, <1>8, StepInside DEF Inductive, TypeOK

-----------------------------------------------------------------------------
(* The theorems.                                                           *)

LEMMA InitInductive ==
    ASSUME Init
    PROVE  Inductive
  <1>1. EmptyState \in StateFile /\ PendingEvents(EmptyState) = {} /\ DOMAIN EmptyState.audits = {}
    BY DEF EmptyState, StateFile, Phases, ContractRef, PendingEvents
  <1>2. NoJob \in JobRecord /\ NoJob.seen = {}
    BY <1>1 DEF NoJob, JobRecord, ContractRef, BudgetRef
  <1>3. "idle" \in PCs /\ "idle" \notin Locked
    BY DEF PCs, Locked, Writing, StartTry, StartCleanup
  <1>4. TypeOK
    BY <1>1, <1>2, <1>3 DEF Init, TypeOK, NoFile, ContractFile, BudgetRef
  <1>5. StateLockExcludes
    BY <1>3, ProcessAssumption DEF Init, StateLockExcludes
  <1>6. SeenInHistory
    BY <1>2 DEF Init, SeenInHistory
  <1>7. FilesCoherent
    BY <1>1, ConstantsAssumption DEF Init, FilesCoherent, EmptyState, NoFile
  <1>8. \A p \in Procs : CopyCurrent(p) /\ RecordInPlace(p) /\ WritesDone(p)
    BY DEF Init, CopyCurrent, RecordInPlace, WritesDone, BeforeAppend, Appended,
           HoldsOldCopy, StartTry, StartCleanup
  <1> QED
    BY <1>4, <1>5, <1>6, <1>7, <1>8 DEF Inductive

LEMMA StutterKeeps ==
    ASSUME Inductive, UNCHANGED vars
    PROVE  Inductive'
  BY DEF vars, Inductive, TypeOK, StateLockExcludes, SeenInHistory, FilesCoherent, Named,
         PendingEvents, CopyCurrent, RecordInPlace, WritesDone, Subject

LEMMA NextKeeps ==
    ASSUME Inductive, Next
    PROVE  Inductive'
  <1>1. CASE RecoverStateLock
    BY <1>1, RecoverStateLockKeeps
  <1>2. ASSUME NEW p \in Procs, Commands(p)
        PROVE  Inductive'
    BY <1>2, BeginKeeps
       DEF Commands, BeginInit, BeginStart, BeginAmend, BeginClose, Operations
  <1>3. ASSUME NEW p \in Procs, Fault(p)
        PROVE  Inductive'
    BY <1>3, WriteFailsKeeps, CrashKeeps DEF Fault
  <1>4. ASSUME NEW p \in Procs, Step(p)
        PROVE  Inductive'
    <2>1. CASE Recover(p)
      BY <2>1, RecoverNextKeeps, RecoverResolveKeeps, LeaveContractKeeps, UnlockKeeps DEF Recover
    <2>2. CASE Start(p)
      BY <2>2, StartCoherenceKeeps, StartCoherenceDoneKeeps, StartEnterKeeps, GiveUpKeeps,
         StartPersistKeeps, StartBaselineKeeps, StartContractKeeps, StartActivateKeeps,
         CompleteKeeps, StartCatchKeeps, StartCatchBaselineKeeps, AbortKeeps DEF Start
    <2>3. CASE Amend(p)
      BY <2>3, AmendEnterKeeps, AmendPersistKeeps, AmendWriteKeeps, CompleteKeeps DEF Amend
    <2>4. CASE Close(p)
      BY <2>4, CloseEnterKeeps, CloseRejectKeeps, ClosePersistKeeps, CloseWriteKeeps,
         CloseReleaseKeeps, CloseStateKeeps, CompleteKeeps DEF Close
    <2>5. CASE Reject(p)
      BY <2>5, RejectPersistKeeps, AbortKeeps DEF Reject
    <2>6. CASE AcquireStateLock(p) \/ StateLockBusy(p) \/ Decide(p) \/ ContractLockBusy(p)
      BY <2>6, AcquireKeeps, BusyKeeps, DecideKeeps, GiveUpKeeps
    <2>7. CASE Drop(p) \/ Unlock(p) \/ InitWrite(p) \/ InitComplete(p)
      BY <2>7, LeaveContractKeeps, UnlockKeeps, InitWriteKeeps, CompleteKeeps
    <2> QED
      BY <1>4, <2>1, <2>2, <2>3, <2>4, <2>5, <2>6, <2>7 DEF Step
  <1> QED
    BY <1>1, <1>2, <1>3, <1>4 DEF Next

\* The inductive invariant holds of every behaviour, whatever the number of
\* processes, contracts, audit records, failed writes and crashes.
THEOREM InductiveInvariant == Spec => []Inductive
  <1>1. Init => Inductive
    BY InitInductive
  <1>2. Inductive /\ [Next]_vars => Inductive'
    BY NextKeeps, StutterKeeps
  <1> QED
    BY <1>1, <1>2, PTL DEF Spec

\* Every file, lock and command keeps its shape.
THEOREM TypeCorrect == Spec => []TypeOK
  <1>1. Inductive => TypeOK
    BY DEF Inductive
  <1> QED
    BY <1>1, InductiveInvariant, PTL

\* The commands that read, decide and write under withLifecycleStateLock are
\* the owner of the lock, through crashes and operator recovery.
THEOREM StateLockExclusion == Spec => []StateLockExcludes
  <1>1. Inductive => StateLockExcludes
    BY DEF Inductive
  <1> QED
    BY <1>1, InductiveInvariant, PTL

\* When no audit is pending, state.json and the contract files agree on what
\* governs, wherever commands failed or died before.
THEOREM PointerCoherence == Spec => []PointerCoherent
  <1>1. Inductive => PointerCoherent
    BY DEF Inductive, PointerCoherent, FilesCoherent, Named, HasPending
  <1> QED
    BY <1>1, InductiveInvariant, PTL

-----------------------------------------------------------------------------
(* The strengthening of Inductive that the steps need.                      *)

OnePending == \A d, e \in PendingEvents(state) : d = e

\* What a pointer named keeps its file, and the latest closed one is closed.
LatestClosed ==
    state.lastClosed # NoContract => contract[state.lastClosed].status = "closed"
ActiveWritten ==
    state.active # NoContract => contract[state.active].status # "absent"

\* A contract file carries the scope of a request.
Scoped == \A c \in Contracts : contract[c].status # "absent" => contract[c].budget \in Budgets

\* Holding a request it has not recorded or written yet.
Requesting == {"coherence", "coherenceDone", "coherent", "startPersist", "startBaseline",
           "startContract", "amend", "amendPersist", "amendWrite"}

\* What a command inside the lock knows of its candidate, of the phase and of
\* its own request.
Held(p) ==
    LET c == job[p].candidate
    IN  /\ pc[p] \in {"startPersist", "startCatch"} \cup StartTry =>
              contract[c].status # "closed"
        /\ pc[p] = "startCatchBaseline" => state.active # c /\ state.lastClosed # c
        /\ pc[p] \in {"startPersist", "startBaseline", "startContract", "startActivate"} =>
              state.phase \in {"initialized", "closed"}
        /\ pc[p] \in Requesting => job[p].ask \in Budgets
        /\ pc[p] = "initWrite" => PendingEvents(state) = {}

FilesKept == OnePending /\ LatestClosed /\ ActiveWritten /\ Scoped

Kept ==
    /\ FilesKept
    /\ \A p \in Procs : Held(p)

-----------------------------------------------------------------------------
(* Steps, by what they do to the files.                                    *)

Recorded ==
    /\ PendingEvents(state) = {}
    /\ \E r \in AuditRecord :
          r.outcome = "pending" /\ state'.audits = Append(state.audits, r)
    /\ state'.active = state.active /\ state'.lastClosed = state.lastClosed
    /\ \/ state'.phase = state.phase
       \/ state.phase = "absent" /\ state'.phase = "initialized"
    /\ UNCHANGED <<contract, baseline>>

Settled ==
    /\ \E e \in PendingEvents(state), o \in Outcomes \ {"pending"} : state' = Resolve(state, e, o)
    /\ UNCHANGED <<contract, baseline>>

Writes(p) ==
    \/ StartBaseline(p) \/ StartContract(p) \/ StartCatch(p) \/ StartCatchBaseline(p)
    \/ AmendWrite(p) \/ CloseWrite(p)

PointerMoved(p) == StartActivate(p) \/ CloseState(p)

Appends(p) ==
    \/ InitWrite(p) \/ StartPersist(p) \/ AmendPersist(p) \/ ClosePersist(p) \/ RejectPersist(p)

Settles(p) ==
    \/ InitComplete(p) \/ StartComplete(p) \/ AmendComplete(p) \/ CloseComplete(p)
    \/ RejectAbort(p) \/ StartCatchAbort(p) \/ RecoverResolve(p)

Act(p) == Commands(p) \/ Step(p) \/ Fault(p)

\* Every other step of a command leaves the files alone.
LEMMA QuietOtherwise ==
    ASSUME NEW p \in Procs, Act(p)
    PROVE  \/ UNCHANGED files
           \/ Writes(p) \/ PointerMoved(p) \/ Appends(p) \/ Settles(p)
  BY DEF Act, Commands, Step, Fault, Writes, PointerMoved, Appends, Settles, files,
         BeginInit, BeginStart, BeginAmend, BeginClose, Begin, AcquireStateLock, StateLockBusy,
         Recover, RecoverNext, RecoverLeave, RecoverUnlock, Decide, ContractLockBusy, Drop, Unlock,
         Reject, Start, StartCoherence, StartCoherenceDone, StartAdmit, StartLose, StartReturn,
         Amend, AmendEnter, Close, CloseEnter, CloseReject, CloseRelease, EnterContract,
         WriteFails, Crash

\* The record a command appends is a new one, in a settled history.
LEMMA AppendsRecord ==
    ASSUME Inductive, Kept, NEW p \in Procs, Appends(p)
    PROVE  Recorded
  <1>1. ASSUME NEW r \in AuditRecord, r.outcome = "pending", pc[p] \in BeforeAppend,
               PersistAudit(p, r), UNCHANGED <<contract, baseline>>
        PROVE  Recorded
    <2>1. state \in StateFile /\ PendingEvents(state) = {}
      BY <1>1 DEF Inductive, TypeOK, CopyCurrent
    <2> QED
      BY <1>1, <2>1, AppendStore DEF PersistAudit, Recorded
  <1>2. CASE InitWrite(p)
    <2> DEFINE s == Initialized(state)
               r == NewAudit("init", NoContract, "absent", "initialized", NoBudget, NoBudget)
    <2>1. pc[p] = "initWrite"
      BY <1>2 DEF InitWrite, At
    <2>2. /\ s \in StateFile /\ s.audits = state.audits /\ s.active = state.active
          /\ s.lastClosed = state.lastClosed
          /\ s.phase = "initialized" /\ state.phase = "absent"
      BY <2>1 DEF Inductive, TypeOK, WritesDone, Initialized, StateFile, Phases
    <2>3. PendingEvents(state) = {}
      BY <2>1 DEF Kept, Held
    <2>4. r \in AuditRecord /\ r.outcome = "pending"
      BY NewAuditType DEF Operations, Phases, ContractRef, BudgetRef
    <2>5. state' = Append1(s, r) /\ UNCHANGED <<contract, baseline>>
      BY <1>2 DEF InitWrite
    <2> HIDE DEF r, s
    <2> QED
      <3>1. /\ state'.audits = Append(s.audits, r) /\ state'.phase = s.phase
            /\ state'.active = s.active /\ state'.lastClosed = s.lastClosed
        BY <2>2, <2>4, <2>5, AppendStore
      <3>2. state'.audits = Append(state.audits, r)
        BY <2>2, <3>1
      <3> QED
        BY <2>2, <2>3, <2>4, <2>5, <3>1, <3>2 DEF Recorded
  <1>3. /\ job[p].candidate \in ContractRef /\ job[p].held \in ContractRef
        /\ job[p].ask \in BudgetRef /\ state.phase \in Phases
        /\ NoBudget \in BudgetRef /\ "active" \in Phases /\ "closed" \in Phases
        /\ "start" \in Operations /\ "amend" \in Operations /\ "close" \in Operations
        /\ \A c \in Contracts : contract[c].budget \in BudgetRef
    BY DEF Inductive, TypeOK, JobRecord, StateFile, BudgetRef, Phases, ContractFile,
           Operations
  <1>4. CASE StartPersist(p)
    <2>1. PICK r : PersistAudit(p, r) /\ r = NewAudit("start", job[p].candidate, state.phase,
                                                    "active", NoBudget, job[p].ask)
      BY <1>4 DEF StartPersist
    <2>2. PICK c \in ContractRef, f \in Phases, a \in BudgetRef :
             r = NewAudit("start", c, f, "active", NoBudget, a)
      BY <1>3, <2>1
    <2>3. r \in AuditRecord /\ r.outcome = "pending"
      <3>1. NewAudit("start", c, f, "active", NoBudget, a) \in AuditRecord /\ NewAudit("start", c, f, "active", NoBudget, a).outcome = "pending"
        BY <1>3, NewAuditType
      <3> QED
        BY <2>2, <3>1
    <2> QED
      BY <1>1, <1>4, <2>1, <2>3 DEF StartPersist, At, BeforeAppend
  <1>5. CASE AmendPersist(p)
    <2>1. PICK r : /\ PersistAudit(p, r)
                   /\ r = NewAudit("amend", job[p].held, "active", "active",
                                   contract[job[p].held].budget, job[p].ask)
      BY <1>5 DEF AmendPersist
    <2>2. job[p].held \in Contracts /\ contract[job[p].held].budget \in BudgetRef
      BY <1>3, <1>5 DEF AmendPersist, At, Inductive, WritesDone
    <2>3. PICK c \in ContractRef, b \in BudgetRef, a \in BudgetRef :
             r = NewAudit("amend", c, "active", "active", b, a)
      BY <1>3, <2>1, <2>2
    <2>4. r \in AuditRecord /\ r.outcome = "pending"
      <3>1. NewAudit("amend", c, "active", "active", b, a) \in AuditRecord /\ NewAudit("amend", c, "active", "active", b, a).outcome = "pending"
        BY <1>3, NewAuditType
      <3> QED
        BY <2>3, <3>1
    <2> QED
      BY <1>1, <1>5, <2>1, <2>4 DEF AmendPersist, At, BeforeAppend
  <1>6. CASE ClosePersist(p)
    <2> DEFINE b == contract[job[p].held].budget
    <2>1. PICK r : PersistAudit(p, r) /\ r = NewAudit("close", job[p].held, "active", "closed", b, b)
      BY <1>6 DEF ClosePersist
    <2>2. job[p].held \in Contracts /\ contract[job[p].held].budget \in BudgetRef
      BY <1>3, <1>6 DEF ClosePersist, At, Inductive, WritesDone
    <2>3. PICK c \in ContractRef, a \in BudgetRef :
             r = NewAudit("close", c, "active", "closed", a, a)
      BY <1>3, <2>1, <2>2
    <2>4. r \in AuditRecord /\ r.outcome = "pending"
      <3>1. NewAudit("close", c, "active", "closed", a, a) \in AuditRecord /\ NewAudit("close", c, "active", "closed", a, a).outcome = "pending"
        BY <1>3, NewAuditType
      <3> QED
        BY <2>3, <3>1
    <2> QED
      BY <1>1, <1>6, <2>1, <2>4 DEF ClosePersist, At, BeforeAppend
  <1>7. CASE RejectPersist(p)
    <2>1. PICK r : PersistAudit(p, r) /\ r = RejectedAudit(p)
      BY <1>7 DEF RejectPersist
    <2>2. job[p].held \in Contracts /\ contract[job[p].held].budget \in BudgetRef
      BY <1>3, <1>7 DEF RejectPersist, At, Inductive, RecordInPlace
    <2>3. r \in AuditRecord /\ r.outcome = "pending"
      <3>1. CASE job[p].op = "start"
        <4>1. PICK c \in ContractRef, f \in Phases, a \in BudgetRef :
                 r = NewAudit("start", c, f, f, NoBudget, a)
          BY <1>3, <2>1, <2>2, <3>1 DEF RejectedAudit
        <4>2. NewAudit("start", c, f, f, NoBudget, a) \in AuditRecord
              /\ NewAudit("start", c, f, f, NoBudget, a).outcome = "pending"
          BY <1>3, NewAuditType
        <4> QED
          BY <4>1, <4>2
      <3>2. CASE job[p].op # "start"
        <4> DEFINE b == contract[job[p].held].budget
        <4>1. r = NewAudit("close", job[p].held, "closed", "closed", b, b) /\ b \in BudgetRef
          BY <2>1, <2>2, <3>2 DEF RejectedAudit
        <4> HIDE DEF b
        <4>2. /\ "close" \in Operations /\ "closed" \in Phases
              /\ job[p].held \in ContractRef /\ b \in BudgetRef
          BY <1>3, <4>1
        <4>3. /\ NewAudit("close", job[p].held, "closed", "closed", b, b) \in AuditRecord
              /\ NewAudit("close", job[p].held, "closed", "closed", b, b).outcome = "pending"
          BY <4>2, NewAuditType
        <4> QED
          BY <4>1, <4>3
      <3> QED
        BY <3>1, <3>2
    <2> QED
      BY <1>1, <1>7, <2>1, <2>3 DEF RejectPersist, At, BeforeAppend
  <1> QED
    BY <1>2, <1>4, <1>5, <1>6, <1>7 DEF Appends

\* Completing, aborting and recovering settle one pending record, or none.
LEMMA SettlesRecord ==
    ASSUME Inductive, NEW p \in Procs, Settles(p)
    PROVE  UNCHANGED files \/ Settled
  <1> DEFINE e == job[p].event
  <1>1. UNCHANGED <<contract, baseline>>
    BY DEF Settles, InitComplete, StartComplete, AmendComplete, CloseComplete, RejectAbort,
           StartCatchAbort, RecoverResolve
  <1>2. e \in DOMAIN state.audits
    <2>1. pc[p] \in Appended \cup {"resolve"}
      BY DEF Settles, InitComplete, StartComplete, AmendComplete, CloseComplete, RejectAbort,
             StartCatchAbort, RecoverResolve, At, Appended, StartTry, StartCleanup
    <2> QED
      BY <2>1, PendingSubject DEF Inductive, RecordInPlace
  <1>3. \/ state' = state
        \/ state.audits[e].outcome = "pending" /\
           \E o \in Outcomes \ {"pending"} : state' = Resolve(state, e, o)
    BY DEF Settles, InitComplete, StartComplete, AmendComplete, CloseComplete, RejectAbort,
           StartCatchAbort, RecoverResolve, CompleteAudit, AbortAudit, Outcomes
  <1>4. state.audits[e].outcome = "pending" => e \in PendingEvents(state)
    BY <1>2 DEF PendingEvents
  <1> QED
    BY <1>1, <1>3, <1>4 DEF Settled, files

\* Activation writes the pointer and the history as they are but for the
\* contract it activates.
LEMMA Activates ==
    ASSUME Inductive, NEW p \in Procs, StartActivate(p), state' # state
    PROVE  /\ state'.audits = state.audits /\ state'.lastClosed = state.lastClosed
           /\ state'.phase = "active" /\ state'.active = job[p].candidate
           /\ state.active = NoContract
           /\ job[p].candidate \in Contracts
           /\ contract[job[p].candidate].status = "active"
           /\ Named(job[p].candidate)
           /\ UNCHANGED <<contract, baseline>>
  <1> DEFINE c == job[p].candidate
             s == job[p].snapshot
             next == ToActive(s, c)
  <1>1. /\ pc[p] = "startActivate" /\ pc[p] \in StartTry /\ pc[p] \in HoldsOldCopy
        /\ SamePointer(state, s) /\ contract[c].status = "active"
        /\ state' = WriteOver(state, next) /\ UNCHANGED <<contract, baseline>>
    BY DEF StartActivate, At, StartTry, HoldsOldCopy
  <1>2. c \in Contracts /\ Named(c) /\ job[p].event \in PendingEvents(state)
    BY <1>1, StartRecord
  <1>3. /\ s \in StateFile /\ state \in StateFile /\ PendingEvents(s) = {}
        /\ state = Append1(s, state.audits[job[p].event])
    BY <1>1 DEF Inductive, TypeOK, JobRecord, CopyCurrent
  <1>4. /\ next.audits = s.audits /\ next.phase = "active" /\ next.active = c
        /\ next.lastClosed = s.lastClosed /\ next \in StateFile
    BY <1>2, <1>3 DEF StateFile, ToActive, Phases, ContractRef
  <1> HIDE DEF next
  <1>5. MergeAudits(state.audits, next.audits) = state.audits
    BY <1>2, <1>3, <1>4, OldCopyMerges, PendingSubject
  <1>6. state' = [next EXCEPT !.audits = state.audits]
    BY <1>1, <1>5 DEF WriteOver
  <1>7. /\ state'.audits = state.audits /\ state'.lastClosed = state.lastClosed
        /\ state'.phase = "active" /\ state'.active = c
    BY <1>1, <1>4, <1>6 DEF StateFile, SamePointer
  <1> QED
    BY <1>1, <1>2, <1>7 DEF Inductive, WritesDone

\* CLOSE's second write leaves the history and retires the closed contract.
LEMMA Retires ==
    ASSUME Inductive, NEW p \in Procs, CloseState(p)
    PROVE  /\ state'.audits = state.audits /\ state'.lastClosed = state.active
           /\ state'.phase = "closed" /\ state'.active = NoContract
           /\ state.active \in Contracts /\ contract[state.active].status = "closed"
           /\ Named(state.active)
           /\ UNCHANGED <<contract, baseline>>
  <1> DEFINE s == job[p].snapshot
             next == ToClosed(s)
  <1>1. /\ pc[p] = "closeState" /\ pc[p] \in HoldsOldCopy /\ pc[p] \in Appended
        /\ state' = WriteOver(state, next) /\ UNCHANGED <<contract, baseline>>
    BY DEF CloseState, At, Appended, HoldsOldCopy
  <1>2. /\ job[p].event \in PendingEvents(state) /\ Subject(p) = state.active
        /\ state.active \in Contracts /\ contract[state.active].status = "closed"
    BY <1>1 DEF Inductive, RecordInPlace, WritesDone
  <1>3. /\ s \in StateFile /\ state \in StateFile /\ PendingEvents(s) = {}
        /\ state = Append1(s, state.audits[job[p].event])
        /\ state.audits[job[p].event] \in AuditRecord
    BY <1>1, <1>2, PendingSubject DEF Inductive, TypeOK, JobRecord, CopyCurrent
  <1>4. s.active = state.active
    BY <1>3, AppendStore
  <1>5. /\ next.audits = s.audits /\ next.phase = "closed" /\ next.active = NoContract
        /\ next.lastClosed = s.active /\ next \in StateFile
    BY <1>3 DEF StateFile, ToClosed, Phases, ContractRef
  <1> HIDE DEF next
  <1>6. MergeAudits(state.audits, next.audits) = state.audits
    BY <1>3, <1>5, OldCopyMerges
  <1>7. state' = [next EXCEPT !.audits = state.audits]
    BY <1>1, <1>6 DEF WriteOver
  <1>8. /\ state'.audits = state.audits /\ state'.lastClosed = s.active
        /\ state'.phase = "closed" /\ state'.active = NoContract
    BY <1>5, <1>7 DEF StateFile
  <1> QED
    BY <1>1, <1>2, <1>4, <1>8 DEF Named, Subject

\* What a write of a contract or a baseline does, and to whose.
LEMMA WritesOne ==
    ASSUME Inductive, Kept, NEW p \in Procs, Writes(p)
    PROVE  /\ state' = state
           /\ \E c \in Contracts :
                 /\ Named(c)
                 /\ \A d \in Contracts \ {c} : contract'[d] = contract[d] /\ baseline'[d] = baseline[d]
                 /\ contract[c].status = "closed" => contract'[c] = contract[c]
                 /\ contract'[c].status # "absent" => contract'[c].budget \in Budgets
                 /\ state.active = c \/ state.lastClosed = c =>
                       /\ contract[c].status # "absent" => contract'[c].status # "absent"
                       /\ baseline[c] => baseline'[c]
  <1>1. CASE StartBaseline(p) \/ StartContract(p) \/ StartCatch(p) \/ StartCatchBaseline(p)
    <2> DEFINE c == job[p].candidate
    <2>1. pc[p] \in StartTry \cup StartCleanup /\ state' = state
      BY <1>1 DEF StartBaseline, StartContract, StartCatch, StartCatchBaseline, At, StartTry,
                  StartCleanup
    <2>2. c \in Contracts /\ Named(c)
      BY <2>1, StartRecord
    <2>3. Held(p) /\ Scoped
      BY DEF Kept, FilesKept
    <2>4. contract \in [Contracts -> ContractFile] /\ baseline \in [Contracts -> BOOLEAN]
      BY DEF Inductive, TypeOK
    <2>5. CASE StartBaseline(p)
      BY <2>1, <2>2, <2>3, <2>4, <2>5 DEF StartBaseline, Scoped
    <2>6. CASE StartContract(p)
      <3>1. contract[c].status # "closed" /\ job[p].ask \in Budgets
        BY <2>3, <2>6 DEF StartContract, At, Held, StartTry, Requesting
      <3> QED
        BY <2>1, <2>2, <2>4, <2>6, <3>1 DEF StartContract
    <2>7. CASE StartCatch(p)
      <3>1. contract[c].status # "closed"
        BY <2>3, <2>7 DEF StartCatch, At, Held
      <3> QED
        BY <2>1, <2>2, <2>3, <2>4, <2>7, <3>1
           DEF StartCatch, MayRemoveArtifacts, Scoped, NoFile
    <2>8. CASE StartCatchBaseline(p)
      <3>1. state.active # c /\ state.lastClosed # c
        BY <2>3, <2>8 DEF StartCatchBaseline, At, Held
      <3> QED
        BY <2>1, <2>2, <2>3, <2>4, <2>8, <3>1 DEF StartCatchBaseline, Scoped
    <2> QED
      BY <1>1, <2>5, <2>6, <2>7, <2>8
  <1>2. CASE AmendWrite(p) \/ CloseWrite(p)
    <2> DEFINE c == job[p].held
    <2>1. pc[p] \in {"amendWrite", "closeWrite"} /\ state' = state /\ baseline' = baseline
      BY <1>2 DEF AmendWrite, CloseWrite, At
    <2>2. /\ c \in Contracts /\ state.active = c /\ Subject(p) = c
          /\ job[p].event \in PendingEvents(state)
      BY <2>1 DEF Inductive, RecordInPlace, WritesDone, Appended
    <2>3. Named(c)
      BY <2>2 DEF Named, Subject
    <2>4. /\ contract[c].status # "absent" /\ contract[c].budget \in Budgets
      BY <2>2, ConstantsAssumption DEF Kept, FilesKept, ActiveWritten, Scoped
    <2>5. contract \in [Contracts -> ContractFile]
      BY DEF Inductive, TypeOK
    <2>6. CASE AmendWrite(p)
      <3>1. contract[c].status = "active" /\ job[p].ask \in Budgets
        BY <2>6 DEF AmendWrite, At, Inductive, WritesDone, Kept, Held, Requesting
      <3> QED
        BY <2>1, <2>2, <2>3, <2>5, <2>6, <3>1 DEF AmendWrite, ContractFile
    <2>7. CASE CloseWrite(p)
      <3>1. contract' = [contract EXCEPT ![c].status = "closed"]
        BY <2>7 DEF CloseWrite
      <3>2. /\ contract'[c] = [contract[c] EXCEPT !.status = "closed"]
            /\ \A d \in Contracts \ {c} : contract'[d] = contract[d]
        BY <2>2, <2>5, <3>1
      <3>3. /\ contract'[c].status = "closed" /\ contract'[c].budget = contract[c].budget
            /\ contract[c].status = "closed" => contract'[c] = contract[c]
        BY <2>2, <2>5, <3>2 DEF ContractFile
      <3> QED
        BY <2>1, <2>2, <2>3, <2>4, <3>2, <3>3
    <2> QED
      BY <1>2, <2>6, <2>7
  <1> QED
    BY <1>1, <1>2 DEF Writes

-----------------------------------------------------------------------------
(* Kept is an invariant.                                                   *)

LEMMA FilesStayKept ==
    ASSUME Inductive, Kept, NEW p \in Procs, Act(p)
    PROVE  FilesKept'
  <1>0. FilesKept /\ TypeOK
    BY DEF Kept, Inductive
  <1>1. CASE UNCHANGED files
    BY <1>0, <1>1 DEF files, FilesKept, OnePending, LatestClosed, ActiveWritten, Scoped, PendingEvents
  <1>2. CASE Recorded
    <2>1. OnePending'
      <3>1. PICK r \in AuditRecord : state'.audits = Append(state.audits, r)
        BY <1>2 DEF Recorded
      <3>2. /\ state.audits \in Seq(AuditRecord) /\ Len(state.audits) \in Nat
            /\ \A e \in 1..Len(state.audits) : state.audits[e].outcome # "pending"
        BY <1>0, <1>2 DEF TypeOK, StateFile, Recorded, PendingEvents
      <3>3. \A e \in PendingEvents(state') : e = Len(state.audits) + 1
        BY <3>1, <3>2 DEF PendingEvents
      <3> QED
        BY <3>3 DEF OnePending
    <2> QED
      BY <1>0, <1>2, <2>1 DEF Recorded, FilesKept, LatestClosed, ActiveWritten, Scoped
  <1>3. CASE Settled
    <2>1. PICK e \in PendingEvents(state), o \in Outcomes \ {"pending"} : state' = Resolve(state, e, o)
      BY <1>3 DEF Settled
    <2>2. /\ e \in Nat /\ e \in DOMAIN state.audits /\ state \in StateFile
          /\ state.audits[e] \in AuditRecord /\ o \in Outcomes
      BY <1>0, AuditAt DEF TypeOK, PendingEvents
    <2> DEFINE t == Resolve(state, e, o)
    <2>3. /\ t.active = state.active /\ t.lastClosed = state.lastClosed
          /\ DOMAIN t.audits = DOMAIN state.audits
          /\ \A d \in DOMAIN state.audits : t.audits[d] =
                IF d = e THEN [state.audits[d] EXCEPT !.outcome = o] ELSE state.audits[d]
      BY <2>2, ResolveStore
    <2>4. state' = t
      BY <2>1
    <2> HIDE DEF t
    <2>5. /\ state'.active = state.active /\ state'.lastClosed = state.lastClosed
          /\ DOMAIN state'.audits = DOMAIN state.audits
          /\ \A d \in DOMAIN state.audits : state'.audits[d] =
                IF d = e THEN [state.audits[d] EXCEPT !.outcome = o] ELSE state.audits[d]
      BY <2>3, <2>4
    <2>6. state'.audits[e].outcome = o
      BY <2>2, <2>5 DEF AuditRecord
    <2>7. PendingEvents(state') \subseteq PendingEvents(state)
      BY <2>5, <2>6 DEF PendingEvents
    <2> QED
      BY <1>0, <1>3, <2>5, <2>7
         DEF Settled, FilesKept, OnePending, LatestClosed, ActiveWritten, Scoped
  <1>4. CASE Writes(p)
    <2>1. PICK c \in Contracts :
             /\ \A d \in Contracts \ {c} : contract'[d] = contract[d] /\ baseline'[d] = baseline[d]
             /\ contract[c].status = "closed" => contract'[c] = contract[c]
             /\ contract'[c].status # "absent" => contract'[c].budget \in Budgets
             /\ /\ state.active = c \/ state.lastClosed = c
                /\ contract[c].status # "absent"
                => contract'[c].status # "absent"
      BY <1>4, WritesOne
    <2>2. state' = state /\ {state.active, state.lastClosed} \subseteq ContractRef
      BY <1>0, <1>4, WritesOne DEF TypeOK, StateFile
    <2> QED
      BY <1>0, <2>1, <2>2 DEF ContractRef, FilesKept, OnePending, LatestClosed, ActiveWritten, Scoped
  <1>5. CASE StartActivate(p) /\ state' # state
    BY <1>0, <1>5, Activates
       DEF FilesKept, OnePending, LatestClosed, ActiveWritten, Scoped, PendingEvents
  <1>6. CASE StartActivate(p) /\ state' = state
    BY <1>1, <1>6 DEF StartActivate, files
  <1>7. CASE CloseState(p)
    BY <1>0, <1>7, Retires
       DEF FilesKept, OnePending, LatestClosed, ActiveWritten, Scoped, PendingEvents
  <1> QED
    BY <1>1, <1>2, <1>3, <1>4, <1>5, <1>6, <1>7, QuietOtherwise, AppendsRecord, SettlesRecord
       DEF PointerMoved

\* A command's step moves that command alone, and writes under the lock.
LEMMA MovesAlone ==
    ASSUME TypeOK, NEW p \in Procs, Act(p)
    PROVE  /\ \A q \in Procs \ {p} : pc'[q] = pc[q] /\ job'[q] = job[q]
           /\ pc[p] \notin Locked => UNCHANGED files
  <1>1. CASE Commands(p) \/ Fault(p)
    BY <1>1 DEF Commands, Fault, BeginInit, BeginStart, BeginAmend, BeginClose, Begin, WriteFails,
                Crash, Goto, files, TypeOK
  <1>2. CASE AcquireStateLock(p) \/ StateLockBusy(p) \/ Decide(p) \/ ContractLockBusy(p) \/ Drop(p) \/ Unlock(p)
    BY <1>2 DEF AcquireStateLock, StateLockBusy, Decide, ContractLockBusy, Drop, Unlock, Goto,
                files, TypeOK
  <1>3. CASE Recover(p)
    BY <1>3 DEF Recover, RecoverNext, RecoverResolve, RecoverLeave, RecoverUnlock, Goto, At, files,
                TypeOK, Locked, Writing
  <1>4. CASE Appends(p)
    BY <1>4 DEF Appends, InitWrite, StartPersist, AmendPersist, ClosePersist, RejectPersist,
                PersistAudit, Goto, At, files, TypeOK, Locked, Writing
  <1>5. CASE Writes(p) \/ PointerMoved(p)
    BY <1>5 DEF Writes, PointerMoved, StartBaseline, StartContract, StartCatch, StartCatchBaseline,
                AmendWrite, CloseWrite, StartActivate, CloseState, Goto, At, TypeOK, Locked, Writing,
                StartTry, StartCleanup
  <1>6. CASE Settles(p)
    BY <1>6 DEF Settles, InitComplete, StartComplete, AmendComplete, CloseComplete, RejectAbort,
                StartCatchAbort, RecoverResolve, Goto, At, TypeOK, Locked, Writing, StartTry,
                StartCleanup
  <1>7. CASE \/ StartCoherence(p) \/ StartCoherenceDone(p) \/ StartAdmit(p) \/ StartLose(p)
             \/ StartReturn(p) \/ AmendEnter(p) \/ CloseEnter(p) \/ CloseReject(p) \/ CloseRelease(p)
    BY <1>7 DEF StartCoherence, StartCoherenceDone, StartAdmit, StartLose, StartReturn, AmendEnter,
                CloseEnter, CloseReject, CloseRelease, EnterContract, Goto, files, TypeOK
  <1> QED
    BY <1>1, <1>2, <1>3, <1>4, <1>5, <1>6, <1>7
       DEF Act, Step, Reject, Start, Amend, Close, Appends, Writes, PointerMoved, Settles

\* The labels at which a command knows something.
Knowing == {"startPersist", "startCatch", "startCatchBaseline", "initWrite"} \cup StartTry \cup Requesting

LEMMA NothingHeld ==
    ASSUME NEW q \in Procs, pc'[q] \notin Knowing
    PROVE  Held(q)'
  BY DEF Held, Knowing, Requesting, StartTry

\* What the others know stays true: only the owner of the lock writes.
LEMMA OthersHeld ==
    ASSUME Inductive, Kept, NEW p \in Procs, Act(p), NEW q \in Procs \ {p}
    PROVE  Held(q)'
  <1>1. pc'[q] = pc[q] /\ job'[q] = job[q] /\ (pc[p] \notin Locked => UNCHANGED files)
    BY MovesAlone DEF Inductive
  <1>2. CASE pc[q] \in Locked
    <2>1. pc[p] \notin Locked
      BY <1>2 DEF Inductive, StateLockExcludes
    <2>2. Held(q) /\ UNCHANGED <<state, contract>>
      BY <1>1, <2>1 DEF Kept, files
    <2> QED
      BY <1>1, <2>2 DEF Held, PendingEvents
  <1>3. CASE pc[q] \notin Locked
    BY <1>1, <1>3, NothingHeld DEF Knowing, Requesting, Locked, Writing, StartTry, StartCleanup
  <1> QED
    BY <1>2, <1>3

\* What the mover knows at its next label.
LEMMA MoverHeld ==
    ASSUME Inductive, Kept, NEW p \in Procs, Act(p)
    PROVE  Held(p)'
  <1> DEFINE c == job[p].candidate
  <1>0. /\ TypeOK /\ Held(p) /\ pc \in [Procs -> PCs]
        /\ job \in [Procs -> JobRecord] /\ contract \in [Contracts -> ContractFile]
    BY DEF Inductive, Kept, TypeOK
  <1> USE <1>0
  <1>1. ASSUME NEW l, Goto(p, l), l \notin Knowing
        PROVE  Held(p)'
    BY <1>1, NothingHeld DEF Goto
  <1>2. CASE \/ Commands(p) \/ AcquireStateLock(p) \/ StateLockBusy(p) \/ ContractLockBusy(p)
             \/ Drop(p) \/ Unlock(p) \/ Recover(p) \/ Settles(p) \/ Crash(p)
             \/ InitWrite(p) \/ RejectPersist(p) \/ ClosePersist(p) \/ AmendWrite(p) \/ CloseWrite(p)
             \/ CloseState(p) \/ CloseRelease(p) \/ StartCatchBaseline(p) \/ StartReturn(p)
    <2>1. CASE \/ Commands(p) \/ AcquireStateLock(p) \/ StateLockBusy(p) \/ ContractLockBusy(p)
               \/ Drop(p) \/ Unlock(p) \/ Crash(p)
      <3>1. pc'[p] \in {"recoverLock", "ready", "locked", "recover", "idle", "unlock"}
        BY <2>1 DEF Commands, BeginInit, BeginStart, BeginAmend, BeginClose, Begin,
                    AcquireStateLock, StateLockBusy, ContractLockBusy, Drop, Unlock, Crash, Goto
      <3> QED
        BY <3>1, NothingHeld DEF Knowing, Requesting, StartTry
    <2>2. CASE Recover(p) \/ Settles(p)
      <3>1. pc'[p] \in {"resolve", "drop", "recovered", "recoverUnlock", "recover", "ready", "unlock"}
        BY <2>2 DEF Recover, RecoverNext, RecoverResolve, RecoverLeave, RecoverUnlock, Settles,
                    InitComplete, StartComplete, AmendComplete, CloseComplete, RejectAbort,
                    StartCatchAbort, Goto
      <3> QED
        BY <3>1, NothingHeld DEF Knowing, Requesting, StartTry
    <2>3. CASE \/ InitWrite(p) \/ RejectPersist(p) \/ ClosePersist(p) \/ AmendWrite(p) \/ CloseWrite(p)
               \/ CloseState(p) \/ CloseRelease(p) \/ StartCatchBaseline(p) \/ StartReturn(p)
      <3>1. PICK l : Goto(p, l) /\ l \notin Knowing
        BY <2>3 DEF InitWrite, RejectPersist, ClosePersist, AmendWrite, CloseWrite, CloseState,
                    CloseRelease, StartCatchBaseline, StartReturn, Knowing, Requesting, StartTry
      <3> QED
        BY <1>1, <3>1
    <2> QED
      BY <1>2, <2>1, <2>2, <2>3
  <1>3. CASE CloseEnter(p) \/ CloseReject(p) \/ StartLose(p)
    <2>1. PICK l : Goto(p, l) /\ l \notin Knowing
      BY <1>3 DEF CloseEnter, CloseReject, StartLose, EnterContract, Knowing, Requesting, StartTry
    <2> QED
      BY <1>1, <2>1
  <1>4. CASE WriteFails(p)
    <2>1. CASE pc[p] \in StartTry
      BY <1>4, <2>1 DEF WriteFails, Goto, files, Held, StartTry, Requesting
    <2>2. CASE pc[p] \notin StartTry
      <3>1. Goto(p, "drop") /\ "drop" \notin Knowing
        BY <1>4, <2>2 DEF WriteFails, Knowing, Requesting, StartTry
      <3> QED
        BY <1>1, <3>1
    <2> QED
      BY <2>1, <2>2
  <1>5. CASE Decide(p)
    <2>1. PICK b \in Asks(job[p].op), d \in Fresh(job[p].op) :
             job' = [job EXCEPT ![p].snapshot = state, ![p].ask = b, ![p].candidate = d]
      BY <1>5 DEF Decide
    <2>2. job'[p].ask = b /\ UNCHANGED <<state, contract>>
      BY <1>5, <2>1 DEF Decide, files, JobRecord
    <2> DEFINE l == IF NoPendingAudits THEN Branch(p) ELSE "unlock"
    <2>3. pc'[p] = l
      BY <1>5 DEF Decide, Goto
    <2>4. /\ l \in Knowing => NoPendingAudits /\ l \in {"initWrite", "coherence", "coherent", "amend"}
          /\ l \in {"coherence", "coherent", "amend"} => job[p].op \in {"start", "amend"}
      BY DEF Branch, Knowing, Requesting, StartTry
    <2>5. PendingEvents(state)' = PendingEvents(state)
      BY <2>2 DEF PendingEvents
    <2> HIDE DEF l
    <2> QED
      BY <2>1, <2>2, <2>3, <2>4, <2>5, NothingHeld
         DEF Held, Asks, NoPendingAudits, HasPending, StartTry, Requesting
  <1>6. CASE StartCoherence(p) \/ StartCoherenceDone(p) \/ AmendEnter(p)
    <2>1. /\ pc[p] \in Requesting
          /\ pc'[p] \in {"coherenceDone", "coherent", "amendPersist"} \/ pc'[p] \notin Knowing
      BY <1>6 DEF StartCoherence, StartCoherenceDone, AmendEnter, EnterContract, Goto, At, Requesting,
                  Knowing, StartTry
    <2>2. job'[p].ask = job[p].ask
      BY <1>6 DEF StartCoherence, StartCoherenceDone, AmendEnter, EnterContract, JobRecord
    <2> QED
      BY <2>1, <2>2, NothingHeld DEF Held, StartTry, Requesting
  <1>7. CASE StartAdmit(p)
    <2>1. /\ pc[p] = "coherent" /\ state.phase \in {"initialized", "closed"}
          /\ UNCHANGED <<state, contract>>
          /\ job' = [job EXCEPT ![p].held = c]
          /\ pc'[p] = IF ArtifactsAbsent(c) THEN "startPersist" ELSE "drop"
      BY <1>7 DEF StartAdmit, EnterContract, Goto, At, files
    <2>2. job'[p].ask = job[p].ask /\ job'[p].candidate = c
      BY <2>1 DEF JobRecord
    <2>3. CASE ~ArtifactsAbsent(c)
      BY <2>1, <2>3, NothingHeld DEF Knowing, Requesting, StartTry
    <2>4. CASE ArtifactsAbsent(c)
      <3>1. contract[c].status = "absent" /\ job[p].ask \in Budgets
        BY <2>1, <2>4 DEF ArtifactsAbsent, NoFile, Held, Requesting
      <3> QED
        BY <2>1, <2>2, <2>4, <3>1 DEF Held, StartTry, Requesting
    <2> QED
      BY <2>3, <2>4
  <1>8. CASE StartPersist(p) \/ AmendPersist(p)
    <2>1. Appends(p) /\ job'[p].ask = job[p].ask /\ job'[p].candidate = c /\ contract' = contract
      BY <1>8 DEF Appends, StartPersist, AmendPersist, PersistAudit, JobRecord
    <2>2. \/ pc[p] = "startPersist" /\ pc'[p] = "startBaseline"
          \/ pc[p] = "amendPersist" /\ pc'[p] = "amendWrite"
      BY <1>8 DEF StartPersist, AmendPersist, At, Goto
    <2>3. state'.phase = state.phase \/ state.phase = "absent"
      BY <2>1, AppendsRecord DEF Recorded
    <2> QED
      BY <2>1, <2>2, <2>3 DEF Held, StartTry, Requesting
  <1>9. CASE StartBaseline(p) \/ StartContract(p)
    <2>1. /\ state' = state /\ job' = job
          /\ \/ pc[p] = "startBaseline" /\ pc'[p] = "startContract" /\ contract' = contract
             \/ /\ pc[p] = "startContract" /\ pc'[p] = "startActivate"
                /\ contract' = [contract EXCEPT ![c] = [status |-> "active", budget |-> job[p].ask]]
      BY <1>9 DEF StartBaseline, StartContract, At, Goto
    <2>2. c \in Contracts
      BY <2>1, StartRecord DEF StartTry
    <2>3. pc[p] = "startContract" => contract'[c].status = "active"
      BY <2>1, <2>2
    <2> QED
      BY <2>1, <2>3 DEF Held, StartTry, Requesting
  <1>10. CASE StartActivate(p)
    <2>1. /\ pc[p] = "startActivate" /\ pc'[p] \in {"startComplete", "startCatch"}
          /\ UNCHANGED <<contract, job>>
      BY <1>10 DEF StartActivate, At, Goto
    <2> QED
      BY <2>1 DEF Held, StartTry, Requesting
  <1>11. CASE StartCatch(p)
    <2>1. /\ UNCHANGED <<state, job>>
          /\ \/ pc'[p] = "startCatchBaseline" /\ state.active # c /\ state.lastClosed # c
             \/ pc'[p] = "drop"
      BY <1>11 DEF StartCatch, At, Goto, MayRemoveArtifacts
    <2> QED
      BY <2>1 DEF Held, StartTry, Requesting
  <1> QED
    BY <1>2, <1>3, <1>4, <1>5, <1>6, <1>7, <1>8, <1>9, <1>10, <1>11
       DEF Act, Fault, Step, Reject, Start, Amend, Close, Settles

LEMMA InitKept == Init => Kept
  <1> SUFFICES ASSUME Init PROVE Kept
    OBVIOUS
  <1>1. PendingEvents(state) = {}
    BY DEF Init, EmptyState, PendingEvents
  <1>2. FilesKept
    BY <1>1 DEF Init, EmptyState, FilesKept, OnePending, LatestClosed, ActiveWritten, Scoped, NoFile
  <1>3. \A p \in Procs : Held(p)
    BY DEF Init, Held, StartTry, Requesting
  <1> QED
    BY <1>2, <1>3 DEF Kept

LEMMA KeptStep ==
    ASSUME Inductive, Kept, [Next]_vars
    PROVE  Kept'
  <1>1. CASE UNCHANGED vars
    BY <1>1 DEF vars, Kept, FilesKept, OnePending, LatestClosed, ActiveWritten, Scoped, Held,
                PendingEvents
  <1>2. CASE RecoverStateLock
    BY <1>2 DEF RecoverStateLock, files, Kept, FilesKept, OnePending, LatestClosed, ActiveWritten,
                Scoped, Held, PendingEvents
  <1>3. ASSUME NEW p \in Procs, Act(p)
        PROVE  Kept'
    BY <1>3, FilesStayKept, MoverHeld, OthersHeld DEF Kept
  <1> QED
    BY <1>1, <1>2, <1>3 DEF Next, Act

LEMMA KeptInvariant == Spec => [](Inductive /\ Kept)
  <1>1. Init => Inductive /\ Kept
    BY InitInductive, InitKept
  <1>2. Inductive /\ Kept /\ [Next]_vars => Inductive' /\ Kept'
    BY NextKeeps, StutterKeeps, KeptStep
  <1> QED
    BY <1>1, <1>2, PTL DEF Spec

-----------------------------------------------------------------------------
(* The theorems.                                                           *)

\* A step by what it does, with the strengthened invariant.
LEMMA StepKinds ==
    ASSUME Inductive, Kept, [Next]_vars
    PROVE  \/ UNCHANGED files \/ Recorded \/ Settled
           \/ \E p \in Procs : Writes(p) \/ (StartActivate(p) /\ state' # state) \/ CloseState(p)
  <1>1. CASE UNCHANGED vars \/ RecoverStateLock
    BY <1>1 DEF vars, files, RecoverStateLock
  <1>2. ASSUME NEW p \in Procs, Act(p)
        PROVE  \/ UNCHANGED files \/ Recorded \/ Settled
               \/ Writes(p) \/ (StartActivate(p) /\ state' # state) \/ CloseState(p)
    <2>1. StartActivate(p) /\ state' = state => UNCHANGED files
      BY DEF StartActivate, files
    <2> QED
      BY <1>2, <2>1, QuietOtherwise, AppendsRecord, SettlesRecord DEF PointerMoved
  <1> QED
    BY <1>1, <1>2 DEF Next, Act

\* A settled record is the same record with another outcome, and the others
\* and the pointer are as they were.
LEMMA SettledIs ==
    ASSUME TypeOK, Settled
    PROVE  /\ state'.phase = state.phase /\ state'.active = state.active
           /\ state'.lastClosed = state.lastClosed
           /\ DOMAIN state'.audits = DOMAIN state.audits
           /\ Len(state'.audits) = Len(state.audits)
           /\ state' \in StateFile
           /\ \A d \in DOMAIN state.audits :
                 state'.audits[d] # state.audits[d] =>
                     /\ state.audits[d].outcome = "pending"
                     /\ [state.audits[d] EXCEPT !.outcome = state'.audits[d].outcome] = state'.audits[d]
  <1>1. PICK e \in PendingEvents(state), o \in Outcomes \ {"pending"} : state' = Resolve(state, e, o)
    BY DEF Settled
  <1> DEFINE t == Resolve(state, e, o)
  <1>2. e \in Nat /\ e \in DOMAIN state.audits /\ state \in StateFile /\ o \in Outcomes
        /\ state.audits[e] \in AuditRecord /\ state.audits[e].outcome = "pending"
    BY AuditAt DEF TypeOK, PendingEvents
  <1>3. /\ t.phase = state.phase /\ t.active = state.active /\ t.lastClosed = state.lastClosed
        /\ DOMAIN t.audits = DOMAIN state.audits /\ t \in StateFile
        /\ \A d \in DOMAIN state.audits : t.audits[d] =
              IF d = e THEN [state.audits[d] EXCEPT !.outcome = o] ELSE state.audits[d]
    BY <1>2, ResolveStore
  <1>4. state' = t
    BY <1>1
  <1> HIDE DEF t
  <1>5. Len(t.audits) = Len(state.audits)
    BY <1>2, <1>3 DEF StateFile
  <1>6. [state.audits[e] EXCEPT !.outcome = o].outcome = o
    BY <1>2 DEF AuditRecord
  <1> QED
    BY <1>2, <1>3, <1>4, <1>5, <1>6

\* Write-ahead: files and pointer change only while a pending record names the
\* contract they are about, whichever command fails or dies where.
THEOREM WritesAreAhead == Spec => WriteAhead
  <1> DEFINE A == \A c \in Contracts :
                    \/ contract'[c] # contract[c]
                    \/ baseline'[c] # baseline[c]
                    \/ (state'.active = c) # (state.active = c)
                    => \E e \in PendingEvents(state) : state.audits[e].contract = c
  <1>1. Inductive /\ Kept /\ [Next]_vars => A
    <2> SUFFICES ASSUME Inductive, Kept, [Next]_vars, NEW c \in Contracts, ~Named(c)
                 PROVE  /\ contract'[c] = contract[c] /\ baseline'[c] = baseline[c]
                        /\ (state'.active = c) = (state.active = c)
      BY DEF Named
    <2>1. CASE UNCHANGED files \/ Recorded
      BY <2>1 DEF files, Recorded
    <2>2. CASE Settled
      BY <2>2, SettledIs DEF Settled, Inductive
    <2>3. ASSUME NEW p \in Procs, Writes(p)
          PROVE  contract'[c] = contract[c] /\ baseline'[c] = baseline[c] /\ state' = state
      BY <2>3, WritesOne
    <2>4. ASSUME NEW p \in Procs, StartActivate(p), state' # state
          PROVE  /\ UNCHANGED <<contract, baseline>> /\ state.active = NoContract
                 /\ state'.active # c
      BY <2>4, Activates
    <2>5. ASSUME NEW p \in Procs, CloseState(p)
          PROVE  /\ UNCHANGED <<contract, baseline>> /\ state.active # c
                 /\ state'.active = NoContract
      BY <2>5, Retires
    <2> QED
      BY <2>1, <2>2, <2>3, <2>4, <2>5, StepKinds, ConstantsAssumption
  <1> QED
    BY <1>1, KeptInvariant, PTL DEF Spec, WriteAhead

\* The history only grows, and only a pending record changes.
LEMMA HistoryStep ==
    ASSUME Inductive, Kept, [Next]_vars
    PROVE  /\ Len(state'.audits) >= Len(state.audits)
           /\ \A e \in DOMAIN state.audits :
                LET r == state.audits[e]
                    s == state'.audits[e]
                IN  r # s => /\ r.outcome = "pending"
                             /\ [r EXCEPT !.outcome = s.outcome] = s
  <1>1. TypeOK /\ state.audits \in Seq(AuditRecord) /\ Len(state.audits) \in Nat
    BY DEF Inductive, TypeOK, StateFile
  <1>2. CASE state'.audits = state.audits
    BY <1>1, <1>2
  <1>3. CASE Recorded
    BY <1>1, <1>3 DEF Recorded
  <1>4. CASE Settled
    <2>1. Len(state'.audits) >= Len(state.audits)
      BY <1>1, <1>4, SettledIs
    <2>2. ASSUME NEW e \in DOMAIN state.audits, state.audits[e] # state'.audits[e]
          PROVE  /\ state.audits[e].outcome = "pending"
                 /\ [state.audits[e] EXCEPT !.outcome = state'.audits[e].outcome] = state'.audits[e]
      BY <1>1, <1>4, <2>2, SettledIs
    <2> QED
      BY <2>1, <2>2
  <1> QED
    BY <1>2, <1>3, <1>4, StepKinds, WritesOne, Activates, Retires DEF files

\* No write of state.json loses a record or reopens a terminal one, the writes
\* of an older copy of the file included.
THEOREM HistoryIsKept == Spec => AuditHistoryKept
  <1> DEFINE A == /\ Len(state'.audits) >= Len(state.audits)
                  /\ \A e \in DOMAIN state.audits :
                       LET r == state.audits[e]
                           s == state'.audits[e]
                       IN  r # s => /\ r.outcome = "pending"
                                    /\ [r EXCEPT !.outcome = s.outcome] = s
  <1>1. Inductive /\ Kept /\ [Next]_vars => A
    BY HistoryStep
  <1> QED
    BY <1>1, KeptInvariant, PTL DEF Spec, AuditHistoryKept

\* A contract a pointer named keeps its files, and a closed one its content.
LEMMA GovernedStep ==
    ASSUME Inductive, Kept, [Next]_vars, NEW c \in Contracts
    PROVE  /\ Pointed(state) = c \/ state.lastClosed = c
                 => contract'[c].status # "absent" /\ (baseline[c] => baseline'[c])
           /\ contract[c].status = "closed" => contract'[c] = contract[c]
  <1>1. Pointed(state) = c \/ state.lastClosed = c =>
           /\ state.active = c \/ state.lastClosed = c
           /\ contract[c].status # "absent"
    BY ConstantsAssumption DEF Pointed, Kept, FilesKept, LatestClosed, ActiveWritten
  <1>2. CASE UNCHANGED <<contract, baseline>>
    BY <1>1, <1>2
  <1>3. ASSUME NEW p \in Procs, Writes(p)
        PROVE  /\ contract[c].status = "closed" => contract'[c] = contract[c]
               /\ state.active = c \/ state.lastClosed = c =>
                     /\ contract[c].status # "absent" => contract'[c].status # "absent"
                     /\ baseline[c] => baseline'[c]
    BY <1>3, WritesOne
  <1> QED
    BY <1>1, <1>2, <1>3, StepKinds, Activates, Retires DEF files, Recorded, Settled

\* START's cleanup removes only what no pointer ever named, and a closed
\* contract stays as it was closed.
THEOREM GovernedIsKept == Spec => GovernedArtifactsKept
  <1> DEFINE A == \A c \in Contracts :
                    /\ Pointed(state) = c \/ state.lastClosed = c
                          => contract'[c].status # "absent" /\ (baseline[c] => baseline'[c])
                    /\ contract[c].status = "closed" => contract'[c] = contract[c]
  <1>1. Inductive /\ Kept /\ [Next]_vars => A
    BY GovernedStep
  <1> QED
    BY <1>1, KeptInvariant, PTL DEF Spec, GovernedArtifactsKept

\* While no record is pending, no file changes but by a new record.
LEMMA SettledStays ==
    ASSUME Inductive, Kept, [Next]_vars, PendingEvents(state) = {}
    PROVE  \/ UNCHANGED <<state, contract>>
           \/ Len(state'.audits) > Len(state.audits)
  <1>1. CASE Recorded
    <2>1. state.audits \in Seq(AuditRecord)
      BY DEF Inductive, TypeOK, StateFile
    <2>2. PICK r \in AuditRecord : state'.audits = Append(state.audits, r)
      BY <1>1 DEF Recorded
    <2> QED
      BY <2>1, <2>2
  <1>2. ~Settled
    BY DEF Settled
  <1>3. ASSUME NEW p \in Procs, Writes(p)
        PROVE  FALSE
    BY <1>3, WritesOne DEF Named
  <1>4. ASSUME NEW p \in Procs, CloseState(p)
        PROVE  FALSE
    BY <1>4, Retires DEF Named
  <1>5. ASSUME NEW p \in Procs, StartActivate(p)
        PROVE  FALSE
    <2>1. job[p].event \in PendingEvents(state)
      BY <1>5 DEF StartActivate, At, Inductive, RecordInPlace, Appended, StartTry
    <2> QED
      BY <2>1
  <1> QED
    BY <1>1, <1>2, <1>3, <1>4, <1>5, StepKinds DEF files

\* Recovery never has two records to tell apart.
THEOREM OneIsPending == Spec => []AtMostOnePending
  <1>1. Kept => AtMostOnePending
    <2> SUFFICES ASSUME OnePending PROVE AtMostOnePending
      BY DEF Kept, FilesKept
    <2>1. CASE PendingEvents(state) = {}
      BY <2>1, FS_EmptySet DEF AtMostOnePending
    <2>2. CASE PendingEvents(state) # {}
      <3>1. PICK e : PendingEvents(state) = {e}
        BY <2>2 DEF OnePending
      <3> QED
        BY <3>1, FS_Singleton DEF AtMostOnePending
    <2> QED
      BY <2>1, <2>2
  <1> QED
    BY <1>1, KeptInvariant, PTL

-----------------------------------------------------------------------------
(* The refinement.                                                         *)

Ended == {c \in Contracts : contract[c].status = "closed" /\ state.active # c}
ScopeOf == [c \in Contracts |->
               IF contract[c].status = "closed" \/ state.active = c
               THEN contract[c].budget ELSE NoBudget]

\* A step that closes no contract, moves no pointer and changes no scope that
\* governs or has governed is none of the abstract lifecycle.
LEMMA Unseen ==
    ASSUME state'.phase = state.phase, state'.active = state.active,
           state'.lastClosed = state.lastClosed,
           \A c \in Contracts :
              \/ contract'[c] = contract[c]
              \/ /\ state.active # c
                 /\ contract[c].status # "closed" /\ contract'[c].status # "closed"
              \/ state.active = c /\ contract'[c].budget = contract[c].budget
    PROVE  UNCHANGED Abstract!avars
  <1>1. Ended' = Ended
    BY DEF Ended
  <1>2. ScopeOf' = ScopeOf
    BY DEF ScopeOf
  <1> QED
    BY <1>1, <1>2 DEF Ended, ScopeOf, Abstract!avars

LEMMA WritesRefine ==
    ASSUME Inductive, Kept, NEW p \in Procs, Writes(p)
    PROVE  [Abstract!AbsNext]_(Abstract!avars)
  <1>1. /\ TypeOK /\ Held(p) /\ state' = state
        /\ contract \in [Contracts -> ContractFile]
    BY WritesOne DEF Inductive, TypeOK, Kept
  <1>2. CASE StartBaseline(p) \/ StartCatchBaseline(p)
    BY <1>1, <1>2, Unseen DEF StartBaseline, StartCatchBaseline
  <1>3. CASE StartContract(p) \/ StartCatch(p)
    <2> DEFINE c == job[p].candidate
    <2>1. pc[p] \in {"startContract", "startCatch"}
      BY <1>3 DEF StartContract, StartCatch, At
    <2>2. c \in Contracts /\ contract[c].status # "closed"
      BY <1>1, <2>1, StartRecord DEF Held, StartTry, StartCleanup
    <2>3. \/ contract' = contract
          \/ /\ state.active # c
             /\ contract' = [contract EXCEPT ![c] = [status |-> "active", budget |-> job[p].ask]]
          \/ /\ state.active # c
             /\ contract' = [contract EXCEPT ![c] = NoFile]
      <3>1. CASE StartContract(p)
        <4>1. state.active = NoContract
          BY <3>1 DEF StartContract, At, Inductive, WritesDone
        <4> QED
          BY <2>2, <3>1, <4>1, ConstantsAssumption DEF StartContract
      <3>2. CASE StartCatch(p)
        BY <3>2 DEF StartCatch, MayRemoveArtifacts
      <3> QED
        BY <1>3, <3>1, <3>2
    <2>4. \/ contract' = contract
          \/ /\ state.active # c /\ contract'[c].status # "closed"
             /\ \A d \in Contracts \ {c} : contract'[d] = contract[d]
      BY <1>1, <2>2, <2>3 DEF NoFile
    <2> QED
      BY <1>1, <2>2, <2>4, Unseen
  <1>4. CASE AmendWrite(p)
    <2> DEFINE c == job[p].held
    <2>1. /\ pc[p] = "amendWrite" /\ job[p].ask \in Budgets
          /\ contract' = [contract EXCEPT ![c].budget = job[p].ask]
      BY <1>1, <1>4 DEF AmendWrite, At, Held, Requesting
    <2>2. PICK b \in Budgets : b = job[p].ask
      BY <2>1
    <2>3. c \in Contracts /\ state.active = c /\ contract[c].status = "active"
      BY <2>1 DEF Inductive, WritesDone
    <2>4. state.phase = "active"
      BY <2>3, ConstantsAssumption DEF Inductive, FilesCoherent
    <2>5. /\ contract'[c].budget = b /\ contract'[c].status = "active"
          /\ \A d \in Contracts \ {c} : contract'[d] = contract[d]
      BY <1>1, <2>1, <2>2, <2>3 DEF ContractFile
    <2>6. Ended' = Ended
      BY <1>1, <2>3, <2>5 DEF Ended
    <2>7. ScopeOf' = [ScopeOf EXCEPT ![state.active] = b]
      BY <1>1, <2>3, <2>5 DEF ScopeOf
    <2>8. Abstract!Rescope(b)
      BY <1>1, <2>4, <2>6, <2>7 DEF Abstract!Rescope, Ended, ScopeOf
    <2> QED
      BY <2>8 DEF Abstract!AbsNext
  <1>5. CASE CloseWrite(p)
    <2> DEFINE c == job[p].held
    <2>1. pc[p] = "closeWrite" /\ contract' = [contract EXCEPT ![c].status = "closed"]
      BY <1>5 DEF CloseWrite, At
    <2>2. c \in Contracts /\ state.active = c
      BY <2>1 DEF Inductive, WritesDone
    <2>3. /\ contract'[c].budget = contract[c].budget
          /\ \A d \in Contracts \ {c} : contract'[d] = contract[d]
      BY <1>1, <2>1, <2>2 DEF ContractFile
    <2> QED
      BY <1>1, <2>2, <2>3, Unseen
  <1> QED
    BY <1>2, <1>3, <1>4, <1>5 DEF Writes

LEMMA ActivationRefines ==
    ASSUME Inductive, Kept, NEW p \in Procs, StartActivate(p), state' # state
    PROVE  Abstract!AbsNext
  <1>1. PICK c \in Contracts :
           /\ c = job[p].candidate
           /\ state'.lastClosed = state.lastClosed
           /\ state'.phase = "active" /\ state'.active = c /\ state.active = NoContract
           /\ contract[c].status = "active" /\ contract' = contract
    BY Activates
  <1>2. state.phase \in {"initialized", "closed"} /\ contract[c].budget \in Budgets
    BY <1>1 DEF StartActivate, At, Kept, Held, FilesKept, Scoped
  <1>3. PICK b \in Budgets : b = contract[c].budget
    BY <1>2
  <1>4. \A d \in Contracts : state.active # d
    BY <1>1, ConstantsAssumption
  <1>5. Ended' = Ended /\ c \notin Ended
    BY <1>1, <1>4 DEF Ended
  <1>6. ScopeOf' = [ScopeOf EXCEPT ![c] = b]
    BY <1>1, <1>3, <1>4 DEF ScopeOf
  <1>7. Abstract!Activate(c, b)
    BY <1>1, <1>2, <1>5, <1>6 DEF Abstract!Activate, Ended, ScopeOf
  <1> QED
    BY <1>7 DEF Abstract!AbsNext

LEMMA RetirementRefines ==
    ASSUME Inductive, NEW p \in Procs, CloseState(p)
    PROVE  Abstract!AbsNext
  <1>1. /\ state'.lastClosed = state.active /\ state'.phase = "closed"
        /\ state'.active = NoContract /\ state.active \in Contracts
        /\ contract[state.active].status = "closed" /\ contract' = contract
    BY Retires
  <1>2. state.phase = "active"
    BY <1>1, ConstantsAssumption DEF Inductive, FilesCoherent
  <1>3. \A d \in Contracts : state'.active # d
    BY <1>1, ConstantsAssumption
  <1>4. Ended' = Ended \cup {state.active}
    BY <1>1, <1>3 DEF Ended
  <1>5. ScopeOf' = ScopeOf
    BY <1>1, <1>3 DEF ScopeOf
  <1>6. Abstract!Retire
    BY <1>1, <1>2, <1>4, <1>5 DEF Abstract!Retire, Ended, ScopeOf
  <1> QED
    BY <1>6 DEF Abstract!AbsNext

\* The commands, their locks, records, failures and recoveries behave as the
\* four single steps of LifecycleAbstract.
THEOREM LifecycleRefines == Spec => RefinesAbstract
  <1>1. Init => Abstract!AbsInit
    <2> SUFFICES ASSUME Init PROVE Abstract!AbsInit
      OBVIOUS
    <2>1. \A c \in Contracts : contract[c].status = "absent" /\ state.active # c
      BY ConstantsAssumption DEF Init, EmptyState, NoFile
    <2>2. Ended = {} /\ ScopeOf = [c \in Contracts |-> NoBudget]
      BY <2>1 DEF Ended, ScopeOf
    <2> QED
      BY <2>2 DEF Init, EmptyState, Abstract!AbsInit, Ended, ScopeOf
  <1>2. Inductive /\ Kept /\ [Next]_vars => [Abstract!AbsNext]_(Abstract!avars)
    <2> SUFFICES ASSUME Inductive, Kept, [Next]_vars
                 PROVE  [Abstract!AbsNext]_(Abstract!avars)
      OBVIOUS
    <2>1. CASE UNCHANGED files
      BY <2>1, Unseen DEF files
    <2>2. CASE Recorded /\ state'.phase = state.phase
      BY <2>2, Unseen DEF Recorded
    <2>3. CASE Recorded /\ state'.phase # state.phase
      <3>1. /\ state.phase = "absent" /\ state'.phase = "initialized"
            /\ state'.active = state.active /\ state'.lastClosed = state.lastClosed
            /\ contract' = contract
        BY <2>3 DEF Recorded
      <3>2. Ended' = Ended /\ ScopeOf' = ScopeOf
        BY <3>1 DEF Ended, ScopeOf
      <3>3. Abstract!Initialize
        BY <3>1, <3>2 DEF Abstract!Initialize, Ended, ScopeOf
      <3> QED
        BY <3>3 DEF Abstract!AbsNext
    <2>4. CASE Settled
      BY <2>4, SettledIs, Unseen DEF Settled, Inductive
    <2> QED
      BY <2>1, <2>2, <2>3, <2>4, StepKinds, WritesRefine, ActivationRefines, RetirementRefines
  <1> QED
    BY <1>1, <1>2, KeptInvariant, PTL DEF Spec, RefinesAbstract, Abstract!AbsSpec

=============================================================================
