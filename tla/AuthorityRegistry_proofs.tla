----------------------- MODULE AuthorityRegistry_proofs -----------------------
(***************************************************************************)
(* What the registry transaction guarantees for any number of processes,   *)
(* repositories and grants, any limits and any number of failures.         *)
(*                                                                         *)
(* The argument is the lock: whoever is past acquireLock is the registry   *)
(* lock's owner (Local), so the copy it decided on is the file, the commit *)
(* appends one event to it, and the file is still that commit when the use *)
(* is answered.                                                            *)
(***************************************************************************)
EXTENDS AuthorityRegistry, FiniteSetTheorems, TLAPS

Places == {"idle", "enter", "locate", "recheck", "lock", "apply",
           "replace", "ack", "release", "abort"}
Holding == {"apply", "replace", "ack", "release", "abort"}

Local(p) ==
    /\ pc[p] \in Holding => registryLock = p
    /\ pc[p] # "idle" => /\ job[p].op # "none"
                         /\ job[p].grant \in Grants
                         /\ job[p].repo \in Repos
    /\ pc[p] = "replace" => /\ job[p].read = registry
                            /\ HasRoom(registry)
                            /\ Bounded(job[p], registry)
    /\ pc[p] \in {"ack", "release"} =>
          /\ registry = Proposed(job[p], job[p].read)
          /\ HasRoom(job[p].read)
          /\ \A a \in accepted : a.revision <= Len(job[p].read.audit)

\* An answer names an event of its own.
Recorded ==
    /\ \A a \in accepted :
          /\ a.revision \in DOMAIN registry.audit
          /\ registry.audit[a.revision] = [kind |-> UseKind(a.grant), grant |-> a.grant]
    /\ \A a, b \in accepted : a.revision = b.revision => a = b

\* A consumption is recorded once, and the grant is consumed since.
Consumption(i) == registry.audit[i].kind = "GRANT_CONSUMED"
ConsumedOnce ==
    /\ \A i \in DOMAIN registry.audit :
          Consumption(i) => registry.rows[registry.audit[i].grant].status = "CONSUMED"
    /\ \A i, j \in DOMAIN registry.audit :
          Consumption(i) /\ Consumption(j) /\ registry.audit[i].grant = registry.audit[j].grant
              => i = j

Inductive ==
    /\ TypeOK
    /\ Recorded
    /\ ConsumedOnce
    /\ \A p \in Procs : Local(p)

-----------------------------------------------------------------------------
(* Shapes.                                                                 *)

LEMMA NoJobTyped == NoJob \in Job /\ EmptyRegistry \in Registry
  <1>1. EmptyRegistry \in Registry
    BY AuthorityAssumption DEF EmptyRegistry, Registry, NoRow, Row, Statuses, Works, PreContract
  <1>2. PreContract \in Works
    BY AuthorityAssumption DEF PreContract, Works
  <1> QED
    BY <1>1, <1>2 DEF NoJob, Job

LEMMA JobTyped ==
    ASSUME NEW j \in Job
    PROVE  /\ \A w \in Works : [j EXCEPT !.work = w] \in Job
           /\ \A reg \in Registry : [j EXCEPT !.read = reg] \in Job
           /\ \A e \in {"none", "precondition", "CORRUPT", "PERSISTENCE_FAILED"} :
                 [j EXCEPT !.error = e] \in Job
           /\ [j EXCEPT !.op = "reject", !.read = EmptyRegistry, !.error = "none"] \in Job
           /\ \A op \in {"create", "revoke", "use"}, r \in Repos, g \in Grants :
                 [j EXCEPT !.op = op, !.repo = r, !.grant = g] \in Job
  BY NoJobTyped DEF Job

\* A commit keeps the registry's shape and appends one event.
LEMMA ProposedTyped ==
    ASSUME NEW j \in Job, NEW reg \in Registry,
           j.op # "none", j.grant \in Grants, j.repo \in Repos
    PROVE  /\ Proposed(j, reg) \in Registry
           /\ Proposed(j, reg).audit = Append(reg.audit, [kind |-> Kind(j), grant |-> j.grant])
           /\ \A g \in Grants : g # j.grant => Proposed(j, reg).rows[g] = reg.rows[g]
  <1> DEFINE g == j.grant
             row == CASE j.op = "create" -> [status |-> "ACTIVE", repo |-> j.repo, work |-> j.work]
                      [] j.op = "revoke" -> [reg.rows[g] EXCEPT !.status = "REVOKED"]
                      [] j.op = "use" /\ g \in OneShot -> [reg.rows[g] EXCEPT !.status = "CONSUMED"]
                      [] OTHER -> reg.rows[g]
  <1>1. row \in Row
    BY DEF Row, Registry, Job, Statuses
  <1>2. [kind |-> Kind(j), grant |-> g] \in Event
    BY DEF Kind, UseKind, Event, Kinds
  <1>3. (IF j.op = "create" THEN reg.bound \cup {j.repo} ELSE reg.bound) \in SUBSET Repos
    BY DEF Registry
  <1> HIDE DEF row
  <1>4. Proposed(j, reg) = [bound |-> IF j.op = "create" THEN reg.bound \cup {j.repo} ELSE reg.bound,
                            rows |-> [reg.rows EXCEPT ![g] = row],
                            audit |-> Append(reg.audit, [kind |-> Kind(j), grant |-> g])]
    BY DEF Proposed, row
  <1>5. /\ [reg.rows EXCEPT ![g] = row] \in [Grants -> Row]
        /\ Append(reg.audit, [kind |-> Kind(j), grant |-> g]) \in Seq(Event)
    BY <1>1, <1>2 DEF Registry
  <1>6. \A h \in Grants : h # g => [reg.rows EXCEPT ![g] = row][h] = reg.rows[h]
    BY DEF Registry
  <1> QED
    BY <1>3, <1>4, <1>5, <1>6 DEF Registry

-----------------------------------------------------------------------------
(* Steps that leave the registry alone.                                    *)

Moves(p) ==
    /\ pc' \in [Procs -> Places]
    /\ job' \in [Procs -> Job]
    /\ \A q \in Procs \ {p} : pc'[q] = pc[q] /\ job'[q] = job[q]

\* The rest of the state keeps its shape and other owners their locks.
Around(p) ==
    /\ registryLock' \in Procs \cup {Free, Left}
    /\ \A q \in Procs \ {p} : registryLock = q => registryLock' = q
    /\ stateLock' \in [Repos -> Procs \cup {Free, Left}]
    /\ reference' \subseteq Repos
    /\ work' \in [Repos -> Works]
    /\ revision' \in [Repos -> Works]
    /\ expired' \subseteq Grants
    /\ faults' \in 0..MaxFaults

LEMMA QuietStep ==
    ASSUME Inductive, NEW p \in Procs, Moves(p), Around(p), Local(p)',
           registry' = registry, accepted' = accepted
    PROVE  Inductive'
  <1>1. TypeOK'
    BY DEF Inductive, TypeOK, Moves, Around, Places
  <1>2. Recorded' /\ ConsumedOnce'
    BY DEF Inductive, Recorded, ConsumedOnce, Consumption
  <1>3. \A q \in Procs \ {p} : Local(q)'
    <2>1. SUFFICES ASSUME NEW q \in Procs \ {p} PROVE Local(q)'
      OBVIOUS
    <2>2. Local(q) /\ pc'[q] = pc[q] /\ job'[q] = job[q] /\ (registryLock = q => registryLock' = q)
      BY DEF Inductive, Moves, Around
    <2> QED
      BY <2>2 DEF Local
  <1> QED
    BY <1>1, <1>2, <1>3 DEF Inductive

LEMMA GotoMoves ==
    ASSUME TypeOK, NEW p \in Procs, NEW l \in Places, NEW j \in Job, Goto(p, l, j)
    PROVE  Moves(p) /\ pc'[p] = l /\ job'[p] = j
  BY DEF TypeOK, Goto, Moves, Places

LEMMA DropTyped ==
    ASSUME TypeOK, NEW p \in Procs, DropStateLock(p)
    PROVE  stateLock' \in [Repos -> Procs \cup {Free, Left}]
  BY DEF TypeOK, DropStateLock

\* However a call or a transaction ends, it goes idle or on to its rejection.
LEMMA ReturnMoves ==
    ASSUME TypeOK, NEW p \in Procs, Return(p)
    PROVE  /\ Moves(p) /\ pc'[p] = "idle"
           /\ stateLock' \in [Repos -> Procs \cup {Free, Left}]
  <1>1. "idle" \in Places
    BY DEF Places
  <1> QED
    BY <1>1, GotoMoves, NoJobTyped, DropTyped DEF Return

LEMMA RejectMoves ==
    ASSUME TypeOK, NEW p \in Procs, Reject(p)
    PROVE  /\ Moves(p) /\ pc'[p] = "lock"
           /\ job'[p].op = "reject"
           /\ job'[p].grant = job[p].grant /\ job'[p].repo = job[p].repo
  <1> DEFINE j == [job[p] EXCEPT !.op = "reject", !.read = EmptyRegistry, !.error = "none"]
  <1>1. job[p] \in Job /\ "lock" \in Places
    BY DEF TypeOK, Places
  <1>2. j \in Job
    BY <1>1, JobTyped
  <1>3. j.op = "reject" /\ j.grant = job[p].grant /\ j.repo = job[p].repo
    BY <1>1 DEF Job
  <1>4. Goto(p, "lock", j)
    BY DEF Reject
  <1> HIDE DEF j
  <1> QED
    BY <1>1, <1>2, <1>3, <1>4, GotoMoves

\* What every end of a transaction leaves: nothing claimed.
Ended(p) ==
    /\ Moves(p)
    /\ stateLock' \in [Repos -> Procs \cup {Free, Left}]
    /\ \/ pc'[p] = "idle"
       \/ /\ pc'[p] = "lock"
          /\ job'[p].op = "reject"
          /\ job'[p].grant = job[p].grant /\ job'[p].repo = job[p].repo

LEMMA ReturnEnds == ASSUME TypeOK, NEW p \in Procs, Return(p) PROVE Ended(p)
  BY ReturnMoves DEF Ended

LEMMA ErrorEnds ==
    ASSUME TypeOK, NEW p \in Procs, NEW e, AfterError(p, e)
    PROVE  Ended(p)
  <1>1. CASE Return(p)
    BY <1>1, ReturnEnds
  <1>2. CASE Reject(p) /\ (UNCHANGED stateLock \/ DropStateLock(p))
    <2>1. stateLock' \in [Repos -> Procs \cup {Free, Left}]
      BY <1>2, DropTyped DEF TypeOK
    <2> QED
      BY <1>2, <2>1, RejectMoves DEF Ended
  <1> QED
    BY <1>1, <1>2 DEF AfterError

LEMMA EndedLocal ==
    ASSUME Inductive, NEW p \in Procs, pc[p] # "idle", Ended(p)
    PROVE  Local(p)'
  BY DEF Inductive, Ended, Local, Holding

\* An end that only settles the two locks.
LEMMA EndStep ==
    ASSUME Inductive, NEW p \in Procs, pc[p] # "idle", Ended(p),
           registryLock' \in Procs \cup {Free, Left},
           \A q \in Procs \ {p} : registryLock = q => registryLock' = q,
           reference' \subseteq Repos, faults' \in 0..MaxFaults,
           UNCHANGED <<registry, work, revision, expired, accepted>>
    PROVE  Inductive'
  <1>1. Moves(p) /\ Around(p)
    BY DEF Inductive, TypeOK, Ended, Around
  <1> QED
    BY <1>1, EndedLocal, QuietStep

\* A step to a place that claims only the lock.
LEMMA PlainStep ==
    ASSUME Inductive, NEW p \in Procs, Moves(p), Around(p),
           registry' = registry, accepted' = accepted,
           pc'[p] \in Holding => registryLock' = p,
           pc'[p] \notin {"replace", "ack", "release"},
           job'[p].op # "none", job'[p].grant \in Grants, job'[p].repo \in Repos
    PROVE  Inductive'
  <1>1. Local(p)'
    BY DEF Local
  <1> QED
    BY <1>1, QuietStep

LEMMA SameAround ==
    ASSUME TypeOK, NEW p \in Procs, UNCHANGED <<registryLock, context, expired, faults>>
    PROVE  Around(p)
  BY DEF TypeOK, Around, context

-----------------------------------------------------------------------------
(* The calls, up to their transaction.                                     *)

\* The call's arguments go with it.
LEMMA CallKept ==
    ASSUME Inductive, NEW p \in Procs, pc[p] # "idle"
    PROVE  /\ job[p] \in Job /\ job[p].op # "none"
           /\ job[p].grant \in Grants /\ job[p].repo \in Repos
  BY DEF Inductive, TypeOK, Local

LEMMA BeginKeeps ==
    ASSUME Inductive, NEW p \in Procs, BeginCreate(p) \/ BeginRevoke(p) \/ BeginUse(p)
    PROVE  Inductive'
  <1>1. PICK op \in {"create", "revoke", "use"}, r \in Repos, g \in Grants :
            Goto(p, "enter", [NoJob EXCEPT !.op = op, !.repo = r, !.grant = g])
    <2>1. CASE BeginCreate(p)
      BY <2>1 DEF BeginCreate
    <2>2. ASSUME NEW op \in {"revoke", "use"}, BeginOnGrant(p, op)
          PROVE  \E r \in Repos, g \in Grants :
                    Goto(p, "enter", [NoJob EXCEPT !.op = op, !.repo = r, !.grant = g])
      <3>1. PICK g \in Existing(registry) :
                /\ Located(registry.rows[g].repo)
                /\ Goto(p, "enter", [NoJob EXCEPT !.op = op, !.repo = registry.rows[g].repo, !.grant = g])
        BY <2>2 DEF BeginOnGrant
      <3>2. g \in Grants /\ registry.rows[g].repo \in Repos
        BY <3>1 DEF Existing, Located, Inductive, TypeOK
      <3> QED
        BY <3>1, <3>2
    <2> QED
      BY <2>1, <2>2 DEF BeginRevoke, BeginUse
  <1> DEFINE j == [NoJob EXCEPT !.op = op, !.repo = r, !.grant = g]
  <1>2. j \in Job
    BY JobTyped, NoJobTyped
  <1>3. j.op = op /\ j.repo = r /\ j.grant = g
    BY DEF NoJob
  <1> HIDE DEF j
  <1>4. Moves(p) /\ pc'[p] = "enter" /\ job'[p] = j
    BY <1>1, <1>2, GotoMoves DEF j, Inductive, Places
  <1>5. Around(p) /\ registry' = registry /\ accepted' = accepted
    BY SameAround DEF Inductive, BeginCreate, BeginRevoke, BeginUse, BeginOnGrant
  <1> QED
    BY <1>3, <1>4, <1>5, PlainStep DEF Holding

LEMMA EnterKeeps ==
    ASSUME Inductive, NEW p \in Procs, Enter(p)
    PROVE  Inductive'
  <1> DEFINE l == CASE job[p].op = "create" -> "locate"
                    [] job[p].op = "revoke" -> "recheck"
                    [] OTHER -> "lock"
             j == [job[p] EXCEPT !.work = work[job[p].repo]]
  <1>1. pc[p] # "idle" /\ Goto(p, l, j)
    BY DEF Enter
  <1>2. l \in {"locate", "recheck", "lock"}
    OBVIOUS
  <1>3. /\ job[p] \in Job /\ job[p].op # "none"
        /\ job[p].grant \in Grants /\ job[p].repo \in Repos
    BY <1>1, CallKept
  <1>4. j \in Job
    BY <1>3, JobTyped DEF Inductive, TypeOK
  <1>5. j.op = job[p].op /\ j.grant = job[p].grant /\ j.repo = job[p].repo
    BY <1>3 DEF Job
  <1> HIDE DEF l, j
  <1>6. Moves(p) /\ pc'[p] = l /\ job'[p] = j
    BY <1>1, <1>2, <1>4, GotoMoves DEF Inductive, Places
  <1>7. Around(p)
    BY DEF Enter, Around, Inductive, TypeOK
  <1> QED
    BY <1>2, <1>3, <1>5, <1>6, <1>7, PlainStep DEF Holding, Enter

LEMMA EnterFailsKeeps ==
    ASSUME Inductive, NEW p \in Procs, EnterFails(p)
    PROVE  Inductive'
  <1>1. pc[p] # "idle"
    BY DEF EnterFails
  <1>2. Moves(p) /\ stateLock' \in [Repos -> Procs \cup {Free, Left}] /\ "idle" \in Places
    BY RejectMoves, GotoMoves, NoJobTyped DEF EnterFails, Inductive, context, TypeOK, Places
  <1>3. Ended(p)
    <2>1. CASE Reject(p)
      BY <1>2, <2>1, RejectMoves DEF Ended, Inductive
    <2>2. CASE Goto(p, "idle", NoJob)
      BY <1>2, <2>2, GotoMoves, NoJobTyped DEF Ended, Inductive
    <2> QED
      BY <2>1, <2>2 DEF EnterFails
  <1> QED
    BY <1>1, <1>3, EndStep DEF EnterFails, context, Inductive, TypeOK

\* The call goes on as it is.
LEMMA GoesOn ==
    ASSUME Inductive, NEW p \in Procs, pc[p] # "idle",
           NEW l \in {"lock", "apply"}, Goto(p, l, job[p])
    PROVE  /\ Moves(p) /\ pc'[p] = l /\ job'[p] = job[p]
           /\ job[p].op # "none" /\ job[p].grant \in Grants /\ job[p].repo \in Repos
  BY CallKept, GotoMoves DEF Inductive, Places

LEMMA LocateKeeps ==
    ASSUME Inductive, NEW p \in Procs, Locate(p) \/ Recheck(p)
    PROVE  Inductive'
  <1>1. pc[p] # "idle" /\ Goto(p, "lock", job[p])
    BY DEF Locate, Recheck
  <1>2. /\ Moves(p) /\ pc'[p] = "lock" /\ job'[p] = job[p]
        /\ job[p].op # "none" /\ job[p].grant \in Grants /\ job[p].repo \in Repos
    BY <1>1, GoesOn
  <1>3. Around(p) /\ registry' = registry /\ accepted' = accepted
    BY <1>2 DEF Locate, Recheck, context, Around, Inductive, TypeOK
  <1> QED
    BY <1>2, <1>3, PlainStep DEF Holding

LEMMA RefusedKeeps ==
    ASSUME Inductive, NEW p \in Procs, LocateRefused(p) \/ RecheckRefused(p) \/ LocateFails(p)
    PROVE  Inductive'
  <1>1. pc[p] # "idle" /\ Ended(p)
    BY ReturnEnds DEF LocateRefused, RecheckRefused, LocateFails, Inductive
  <1>2. reference' \subseteq Repos /\ faults' \in 0..MaxFaults
    BY <1>1, CallKept, AuthorityAssumption
       DEF LocateRefused, RecheckRefused, LocateFails, Fault, Inductive, TypeOK
  <1>3. UNCHANGED <<registry, registryLock, work, revision, expired, accepted>>
    BY DEF LocateRefused, RecheckRefused, LocateFails
  <1>4. registryLock' \in Procs \cup {Free, Left}
    BY <1>3 DEF Inductive, TypeOK
  <1> QED
    BY <1>1, <1>2, <1>3, <1>4, EndStep

-----------------------------------------------------------------------------
(* The transaction.                                                        *)

LEMMA TakeLockKeeps ==
    ASSUME Inductive, NEW p \in Procs, TakeLock(p)
    PROVE  Inductive'
  <1>1. pc[p] # "idle" /\ Goto(p, "apply", job[p]) /\ registryLock' = p /\ registryLock = Free
    BY DEF TakeLock, MayLock
  <1>2. /\ Moves(p) /\ pc'[p] = "apply" /\ job'[p] = job[p]
        /\ job[p].op # "none" /\ job[p].grant \in Grants /\ job[p].repo \in Repos
    BY <1>1, GoesOn
  <1>3. Around(p) /\ registry' = registry /\ accepted' = accepted
    BY <1>1, AuthorityAssumption DEF TakeLock, context, Around, Inductive, TypeOK
  <1> QED
    BY <1>1, <1>2, <1>3, PlainStep

LEMMA LockBusyKeeps ==
    ASSUME Inductive, NEW p \in Procs, LockBusy(p) \/ LockFails(p)
    PROVE  Inductive'
  <1>1. pc[p] # "idle" /\ Ended(p)
    BY ErrorEnds DEF LockBusy, LockFails, Inductive
  <1>2. /\ registryLock' \in Procs \cup {Free, Left}
        /\ \A q \in Procs \ {p} : registryLock = q => registryLock' = q
    BY AuthorityAssumption DEF LockBusy, LockFails, MayLock, Inductive, TypeOK
  <1>3. reference' \subseteq Repos /\ faults' \in 0..MaxFaults
    BY AuthorityAssumption DEF LockBusy, LockFails, Fault, Inductive, TypeOK
  <1> QED
    BY <1>1, <1>2, <1>3, EndStep DEF LockBusy, LockFails

LEMMA ApplyKeeps ==
    ASSUME Inductive, NEW p \in Procs, Apply(p)
    PROVE  Inductive'
  <1> DEFINE j == [job[p] EXCEPT !.read = registry]
  <1>1. pc[p] = "apply" /\ registryLock = p
    BY DEF Apply, Inductive, Local, Holding
  <1>2. /\ job[p] \in Job /\ job[p].op # "none"
        /\ job[p].grant \in Grants /\ job[p].repo \in Repos
    BY <1>1, CallKept
  <1>3. j \in Job
    BY <1>2, JobTyped DEF Inductive, TypeOK
  <1>4. /\ j.op = job[p].op /\ j.grant = job[p].grant /\ j.repo = job[p].repo
        /\ j.read = registry
    BY <1>2 DEF Job
  <1>5. HasRoom(registry) /\ Bounded(job[p], registry) /\ Goto(p, "replace", j)
    BY DEF Apply
  <1>6. Bounded(j, registry)
    <2>1. Proposed(j, registry).rows[j.grant] = Proposed(job[p], registry).rows[job[p].grant]
      BY <1>2, <1>4, <1>3 DEF Proposed, Job
    <2> QED
      BY <1>4, <1>5, <2>1 DEF Bounded
  <1> HIDE DEF j
  <1>7. Moves(p) /\ pc'[p] = "replace" /\ job'[p] = j
    BY <1>3, <1>5, GotoMoves DEF Inductive, Places
  <1>8. Around(p) /\ UNCHANGED <<registry, registryLock, accepted>>
    BY SameAround DEF Apply, Inductive
  <1>9. Local(p)'
    <2>1. HasRoom(registry)' /\ Bounded(job[p], registry)'
      BY <1>5, <1>6, <1>7, <1>8 DEF HasRoom, Bounded, Proposed, Kind, UseKind
    <2> QED
      BY <1>1, <1>2, <1>4, <1>7, <1>8, <2>1 DEF Local
  <1> QED
    BY <1>7, <1>8, <1>9, QuietStep

\* An error inside the transaction: the lock is still to be let go.
LEMMA AbortingKeeps ==
    ASSUME Inductive, NEW p \in Procs, ApplyRefused(p) \/ ReplaceRefused(p) \/ PersistFails(p)
    PROVE  Inductive'
  <1>1. pc[p] \in {"apply", "replace"} /\ registryLock = p
    BY DEF ApplyRefused, ReplaceRefused, PersistFails, Inductive, Local, Holding
  <1>2. PICK e \in {"precondition", "CORRUPT", "PERSISTENCE_FAILED"} :
            Goto(p, "abort", [job[p] EXCEPT !.error = e])
    BY DEF ApplyRefused, ReplaceRefused, PersistFails
  <1> DEFINE j == [job[p] EXCEPT !.error = e]
  <1>3. /\ job[p] \in Job /\ job[p].op # "none"
        /\ job[p].grant \in Grants /\ job[p].repo \in Repos
    BY <1>1, CallKept
  <1>4. j \in Job
    BY <1>3, JobTyped
  <1>5. j.op = job[p].op /\ j.grant = job[p].grant /\ j.repo = job[p].repo
    BY <1>3 DEF Job
  <1> HIDE DEF j
  <1>6. Moves(p) /\ pc'[p] = "abort" /\ job'[p] = j
    BY <1>2, <1>4, GotoMoves DEF j, Inductive, Places
  <1>7. UNCHANGED <<registry, registryLock, context, expired, accepted>> /\ faults' \in 0..MaxFaults
    <2>1. UNCHANGED <<registry, registryLock, context, expired, accepted>>
      BY DEF ApplyRefused, ReplaceRefused, PersistFails
    <2>2. faults' = faults \/ Fault
      BY DEF ApplyRefused, ReplaceRefused, PersistFails
    <2> QED
      BY <2>1, <2>2, AuthorityAssumption DEF Fault, Inductive, TypeOK
  <1>8. Around(p)
    BY <1>7 DEF Around, Inductive, TypeOK, context
  <1> QED
    BY <1>1, <1>3, <1>5, <1>6, <1>7, <1>8, PlainStep

LEMMA AcknowledgeKeeps ==
    ASSUME Inductive, NEW p \in Procs, Acknowledge(p)
    PROVE  Inductive'
  <1>1. pc[p] = "ack" /\ Goto(p, "release", job[p]) /\ job[p] \in Job
    BY CallKept DEF Acknowledge
  <1>2. Moves(p) /\ pc'[p] = "release" /\ job'[p] = job[p]
    BY <1>1, GotoMoves DEF Inductive, Places
  <1>3. Around(p) /\ UNCHANGED <<registry, registryLock, accepted>>
    BY SameAround DEF Acknowledge, Inductive
  <1>4. Local(p)
    BY DEF Inductive
  <1>5. Local(p)'
    <2>1. Proposed(job[p], job[p].read)' = Proposed(job[p], job[p].read) /\ HasRoom(job[p].read)' = HasRoom(job[p].read)
      BY <1>2 DEF Proposed, Kind, UseKind, HasRoom
    <2> QED
      BY <1>1, <1>2, <1>3, <1>4, <2>1 DEF Local, Holding
  <1> QED
    BY <1>2, <1>3, <1>5, QuietStep

\* The commit of the lock's owner: one event more, and its row.
LEMMA CommitRecords ==
    ASSUME Inductive, NEW p \in Procs, pc[p] = "replace",
           registry' = Proposed(job[p], job[p].read), accepted' = accepted
    PROVE  /\ registry' \in Registry
           /\ Recorded' /\ ConsumedOnce'
           /\ \A a \in accepted : a.revision <= Len(job[p].read.audit)
  <1>1. /\ job[p] \in Job /\ job[p].op # "none"
        /\ job[p].grant \in Grants /\ job[p].repo \in Repos
    BY CallKept
  <1>2. /\ job[p].read = registry /\ HasRoom(registry) /\ Bounded(job[p], registry)
        /\ registry \in Registry
    BY DEF Inductive, Local, TypeOK
  <1> DEFINE e == [kind |-> Kind(job[p]), grant |-> job[p].grant]
             g == job[p].grant
  <1>3. /\ registry' \in Registry
        /\ registry'.audit = Append(registry.audit, e)
        /\ \A h \in Grants : h # g => registry'.rows[h] = registry.rows[h]
    BY <1>1, <1>2, ProposedTyped
  <1>4. /\ registry.audit \in Seq(Event)
        /\ DOMAIN registry'.audit = 1..(Len(registry.audit) + 1)
        /\ DOMAIN registry.audit = 1..Len(registry.audit)
        /\ \A i \in DOMAIN registry.audit : registry'.audit[i] = registry.audit[i]
        /\ registry'.audit[Len(registry.audit) + 1] = e
        /\ Len(registry.audit) \in Nat
    BY <1>2, <1>3 DEF Registry
  <1>5. Recorded'
    BY <1>4 DEF Inductive, Recorded, UseKind
  <1>6. \A a \in accepted : a.revision <= Len(job[p].read.audit)
    <2>1. \A a \in accepted : a.revision \in DOMAIN registry.audit
      BY DEF Inductive, Recorded
    <2> QED
      BY <2>1, <1>2, <1>4
  <1>7. /\ registry.rows[g].status = "CONSUMED" => registry'.rows[g].status = "CONSUMED"
        /\ e.kind = "GRANT_CONSUMED" => /\ registry.rows[g].status = "ACTIVE"
                                        /\ registry'.rows[g].status = "CONSUMED"
    <2> DEFINE old == registry.rows[g].status
               new == registry'.rows[g].status
    <2>1. new = Proposed(job[p], registry).rows[g].status
      BY <1>2
    <2> HIDE DEF new
    <2>2. CASE job[p].op = "create"
      BY <1>2, <2>1, <2>2 DEF Bounded, Kind
    <2>3. CASE job[p].op = "revoke"
      BY <1>2, <2>1, <2>3 DEF Bounded, Kind
    <2>4. CASE job[p].op = "use" /\ g \in OneShot
      BY <1>2, <2>1, <2>4 DEF Bounded, new
    <2>5. CASE job[p].op = "use" /\ g \notin OneShot
      BY <1>2, <2>1, <2>5 DEF Bounded, Kind, UseKind
    <2>6. CASE job[p].op = "reject"
      <3>1. old = new
        BY <1>2, <2>1, <2>6 DEF Bounded
      <3>2. e.kind = "GRANT_USE_REJECTED"
        BY <2>6 DEF Kind
      <3> QED
        BY <3>1, <3>2 DEF new
    <2> QED
      BY <1>1, <2>2, <2>3, <2>4, <2>5, <2>6 DEF Job, new
  <1>8. \A i \in DOMAIN registry.audit : registry.audit[i].grant \in Grants
    <2>1. \A i \in DOMAIN registry.audit : registry.audit[i] \in Event
      BY <1>4
    <2> QED
      BY <2>1 DEF Event
  <1>9. ConsumedOnce'
    <2>1. ConsumedOnce
      BY DEF Inductive
    <2>2. \A i \in DOMAIN registry.audit :
             Consumption(i) => registry'.rows[registry.audit[i].grant].status = "CONSUMED"
      BY <2>1, <1>3, <1>7, <1>8 DEF ConsumedOnce
    <2>3. e.kind = "GRANT_CONSUMED" =>
             \A i \in DOMAIN registry.audit : Consumption(i) => registry.audit[i].grant # g
      BY <2>1, <1>7 DEF ConsumedOnce
    <2>4. \A i \in DOMAIN registry'.audit :
             \/ i \in DOMAIN registry.audit /\ registry'.audit[i] = registry.audit[i]
             \/ i = Len(registry.audit) + 1 /\ registry'.audit[i] = e
      BY <1>4
    <2>5. e.grant = g
      OBVIOUS
    <2> HIDE DEF e, g
    <2>6. \A i \in DOMAIN registry'.audit :
             registry'.audit[i].kind = "GRANT_CONSUMED"
                => registry'.rows[registry'.audit[i].grant].status = "CONSUMED"
      BY <2>2, <2>4, <2>5, <1>7 DEF Consumption
    <2>7. \A i, k \in DOMAIN registry'.audit :
             /\ registry'.audit[i].kind = "GRANT_CONSUMED"
             /\ registry'.audit[k].kind = "GRANT_CONSUMED"
             /\ registry'.audit[i].grant = registry'.audit[k].grant
             => i = k
      BY <2>1, <2>3, <2>4, <2>5 DEF Consumption, ConsumedOnce
    <2> QED
      BY <2>6, <2>7 DEF ConsumedOnce, Consumption
  <1> QED
    BY <1>3, <1>5, <1>6, <1>9

\* The other processes claim nothing about the file while p holds the lock.
LEMMA OthersKept ==
    ASSUME Inductive, NEW p \in Procs, pc[p] \in Holding, Moves(p),
           \A q \in Procs \ {p} : registryLock = q => registryLock' = q
    PROVE  \A q \in Procs \ {p} : Local(q)'
  <1>1. SUFFICES ASSUME NEW q \in Procs \ {p} PROVE Local(q)'
    OBVIOUS
  <1>2. registryLock = p /\ Local(q)
    BY DEF Inductive, Local
  <1>3. pc[q] \notin Holding
    BY <1>2 DEF Local
  <1>4. pc'[q] = pc[q] /\ job'[q] = job[q]
    BY DEF Moves
  <1> QED
    BY <1>2, <1>3, <1>4 DEF Local, Holding

LEMMA ReplaceKeeps ==
    ASSUME Inductive, NEW p \in Procs, Replace(p)
    PROVE  Inductive'
  <1>1. /\ pc[p] = "replace" /\ pc[p] \in Holding
        /\ registry' = Proposed(job[p], job[p].read) /\ accepted' = accepted
        /\ Goto(p, "ack", job[p])
    BY DEF Replace, Holding
  <1>2. /\ job[p] \in Job /\ job[p].op # "none"
        /\ job[p].grant \in Grants /\ job[p].repo \in Repos
    BY <1>1, CallKept
  <1>3. Moves(p) /\ pc'[p] = "ack" /\ job'[p] = job[p]
    BY <1>1, <1>2, GotoMoves DEF Inductive, Places
  <1>4. Around(p) /\ registryLock' = registryLock
    BY SameAround DEF Replace, Inductive
  <1>5. /\ registry' \in Registry /\ Recorded' /\ ConsumedOnce'
        /\ \A a \in accepted : a.revision <= Len(job[p].read.audit)
    BY <1>1, CommitRecords
  <1>6. TypeOK'
    BY <1>1, <1>3, <1>4, <1>5 DEF Inductive, TypeOK, Moves, Around, Places
  <1>7. \A q \in Procs \ {p} : Local(q)'
    BY <1>1, <1>3, <1>4, OthersKept DEF Around
  <1>8. Local(p)'
    <2>1. Proposed(job[p], job[p].read)' = Proposed(job[p], job[p].read) /\ HasRoom(job[p].read)' = HasRoom(job[p].read)
      BY <1>3 DEF Proposed, Kind, UseKind, HasRoom
    <2>2. HasRoom(job[p].read) /\ registryLock = p
      BY <1>1 DEF Inductive, Local
    <2> QED
      BY <1>1, <1>2, <1>3, <1>4, <1>5, <2>1, <2>2 DEF Local
  <1> QED
    BY <1>5, <1>6, <1>7, <1>8 DEF Inductive

LEMMA ReturnedLock ==
    ASSUME Inductive, NEW p \in Procs, NEW l \in {Free, Left},
           registryLock' = IF registryLock = p THEN l ELSE registryLock
    PROVE  /\ registryLock' \in Procs \cup {Free, Left}
           /\ \A q \in Procs \ {p} : registryLock = q => registryLock' = q
  BY DEF Inductive, TypeOK

LEMMA CommitFailsKeeps ==
    ASSUME Inductive, NEW p \in Procs, CommitFails(p)
    PROVE  Inductive'
  <1>1. /\ pc[p] # "idle" /\ pc[p] \in Holding /\ Ended(p)
        /\ accepted' = accepted /\ UNCHANGED <<reference, work, revision, expired>>
    BY ReturnEnds DEF CommitFails, LeaveLock, Holding, Inductive
  <1>2. /\ registryLock' \in Procs \cup {Free, Left}
        /\ \A q \in Procs \ {p} : registryLock = q => registryLock' = q
    BY ReturnedLock DEF CommitFails, LeaveLock
  <1>3. reference' \subseteq Repos /\ faults' \in 0..MaxFaults
    BY AuthorityAssumption DEF CommitFails, Fault, Inductive, TypeOK
  <1>4. CASE registry' = registry
    BY <1>1, <1>2, <1>3, <1>4, EndStep
  <1>5. CASE pc[p] = "replace" /\ registry' = Proposed(job[p], job[p].read)
    <2>1. registry' \in Registry /\ Recorded' /\ ConsumedOnce'
      BY <1>1, <1>5, CommitRecords
    <2>2. TypeOK'
      BY <1>1, <1>2, <1>3, <2>1 DEF Inductive, TypeOK, Ended, Moves, Places
    <2>3. \A q \in Procs \ {p} : Local(q)'
      BY <1>1, <1>2, OthersKept DEF Ended
    <2>4. Local(p)'
      BY <1>1, EndedLocal
    <2> QED
      BY <2>1, <2>2, <2>3, <2>4 DEF Inductive
  <1> QED
    BY <1>4, <1>5 DEF CommitFails

\* The ends that answer nothing.
LEMMA EndsKeep ==
    ASSUME Inductive, NEW p \in Procs,
           CommitUncertain(p) \/ Abort(p) \/ ReleaseFails(p) \/ Crash(p)
    PROVE  Inductive'
  <1>1. pc[p] # "idle"
    BY DEF CommitUncertain, Abort, ReleaseFails, Crash
  <1>2. Ended(p)
    <2>1. CASE CommitUncertain(p) \/ Abort(p) \/ ReleaseFails(p)
      BY <2>1, ReturnEnds, ErrorEnds DEF CommitUncertain, LeaveLock, Abort, ReleaseFails, Inductive
    <2>2. CASE Crash(p)
      <3>1. Moves(p) /\ pc'[p] = "idle"
        BY <2>2, GotoMoves, NoJobTyped DEF Crash, Inductive, Places
      <3>2. stateLock' \in [Repos -> Procs \cup {Free, Left}]
        BY <2>2 DEF Crash, Inductive, TypeOK
      <3> QED
        BY <3>1, <3>2 DEF Ended
    <2> QED
      BY <2>1, <2>2
  <1>3. /\ registryLock' \in Procs \cup {Free, Left}
        /\ \A q \in Procs \ {p} : registryLock = q => registryLock' = q
    BY ReturnedLock DEF CommitUncertain, LeaveLock, Abort, ReleaseFails, Crash
  <1>4. reference' \subseteq Repos /\ faults' \in 0..MaxFaults
    BY AuthorityAssumption
       DEF CommitUncertain, Abort, ReleaseFails, Crash, Fault, Inductive, TypeOK
  <1> QED
    BY <1>1, <1>2, <1>3, <1>4, EndStep DEF CommitUncertain, Abort, ReleaseFails, Crash

\* The answer: the file is still the commit, and nobody was told of it before.
LEMMA ReleaseKeeps ==
    ASSUME Inductive, NEW p \in Procs, Release(p)
    PROVE  Inductive'
  <1> DEFINE n == Len(job[p].read.audit)
             a0 == [grant |-> job[p].grant, revision |-> n + 1, by |-> p]
  <1>1. /\ pc[p] = "release" /\ pc[p] # "idle" /\ pc[p] \in Holding
        /\ accepted' = accepted \cup Answer(p)
        /\ UNCHANGED <<registry, reference, work, revision, expired, faults>>
    BY DEF Release, Holding
  <1>2. Ended(p)
    BY ReturnEnds DEF Release, Inductive
  <1>3. /\ registryLock' \in Procs \cup {Free, Left}
        /\ \A q \in Procs \ {p} : registryLock = q => registryLock' = q
    BY ReturnedLock DEF Release
  <1>4. /\ job[p] \in Job /\ job[p].op # "none"
        /\ job[p].grant \in Grants /\ job[p].repo \in Repos
    BY <1>1, CallKept
  <1>5. /\ registry = Proposed(job[p], job[p].read)
        /\ HasRoom(job[p].read)
        /\ \A a \in accepted : a.revision <= n
        /\ job[p].read \in Registry
    BY <1>1, <1>4 DEF Inductive, Local, Job
  <1>6. n \in Nat /\ n < MaxAudit /\ n + 1 \in 1..MaxAudit
    BY <1>5, AuthorityAssumption DEF HasRoom, Registry
  <1>7. /\ n + 1 \in DOMAIN registry.audit
        /\ registry.audit[n + 1] = [kind |-> Kind(job[p]), grant |-> job[p].grant]
    BY <1>4, <1>5, <1>6, ProposedTyped DEF Registry
  <1>8. accepted' = accepted \/ (job[p].op = "use" /\ accepted' = accepted \cup {a0})
    BY <1>1 DEF Answer
  <1>9. TypeOK'
    <2>1. accepted' \subseteq [grant : Grants, revision : 1..MaxAudit, by : Procs]
      BY <1>4, <1>6, <1>8 DEF Inductive, TypeOK
    <2> QED
      BY <1>1, <1>2, <1>3, <2>1 DEF Inductive, TypeOK, Ended, Moves, Places
  <1>10. Recorded'
    <2>1. job[p].op = "use" => Kind(job[p]) = UseKind(job[p].grant)
      BY DEF Kind
    <2>2. \A a \in accepted : a.revision # n + 1
      BY <1>5, <1>6 DEF Inductive, TypeOK
    <2>3. Recorded
      BY DEF Inductive
    <2>4. a0.revision = n + 1 /\ a0.grant = job[p].grant
      OBVIOUS
    <2> HIDE DEF a0, n
    <2>5. \A a \in accepted' :
             /\ a.revision \in DOMAIN registry.audit
             /\ registry.audit[a.revision] = [kind |-> UseKind(a.grant), grant |-> a.grant]
      BY <2>1, <2>3, <2>4, <1>7, <1>8 DEF Recorded
    <2>6. \A a, b \in accepted' : a.revision = b.revision => a = b
      BY <2>2, <2>3, <2>4, <1>8 DEF Recorded
    <2> QED
      BY <1>1, <2>5, <2>6 DEF Recorded, UseKind
  <1>11. ConsumedOnce'
    BY <1>1 DEF Inductive, ConsumedOnce, Consumption
  <1>12. \A q \in Procs \ {p} : Local(q)'
    BY <1>1, <1>2, <1>3, OthersKept DEF Ended
  <1>13. Local(p)'
    BY <1>1, <1>2, EndedLocal
  <1> QED
    BY <1>9, <1>10, <1>11, <1>12, <1>13 DEF Inductive

-----------------------------------------------------------------------------
(* The invariant and what follows from it.                                 *)

\* Governance, time and recovery touch neither the registry nor a call.
LEMMA AroundKeeps ==
    ASSUME Inductive,
           \/ \E r \in Repos : Govern(r) \/ RecoverStateLock(r)
           \/ \E g \in Grants : Expire(g)
    PROVE  Inductive'
  <1>1. UNCHANGED <<registry, registryLock, reference, pc, job, accepted, faults>>
    BY DEF Govern, RecoverStateLock, Expire, context
  <1>2. /\ stateLock' \in [Repos -> Procs \cup {Free, Left}]
        /\ expired' \subseteq Grants
    BY DEF Govern, RecoverStateLock, Expire, context, Inductive, TypeOK
  <1>3. /\ work' \in [Repos -> Works]
        /\ revision' \in [Repos -> Works]
    <2>1. CASE \E r \in Repos : Govern(r)
      <3>1. PICK r \in Repos : Govern(r)
        BY <2>1
      <3>2. revision[r] \in Nat /\ revision[r] < MaxRevision => revision[r] + 1 \in Works
        BY AuthorityAssumption DEF Works, Inductive, TypeOK
      <3>3. PreContract \in Works /\ revision[r] \in Nat
        BY AuthorityAssumption DEF Works, PreContract, Inductive, TypeOK
      <3> QED
        BY <3>1, <3>2, <3>3 DEF Govern, Inductive, TypeOK
    <2>2. CASE ~ \E r \in Repos : Govern(r)
      BY <2>2 DEF RecoverStateLock, Expire, context, Inductive, TypeOK
    <2> QED
      BY <2>1, <2>2
  <1>4. TypeOK'
    BY <1>1, <1>2, <1>3 DEF Inductive, TypeOK
  <1>5. Recorded' /\ ConsumedOnce'
    BY <1>1 DEF Inductive, Recorded, ConsumedOnce, Consumption
  <1>6. ASSUME NEW p \in Procs PROVE Local(p)'
    BY <1>1 DEF Inductive, Local
  <1> QED
    BY <1>4, <1>5, <1>6 DEF Inductive

LEMMA InitInductive == Init => Inductive
  <1> SUFFICES ASSUME Init PROVE Inductive
    OBVIOUS
  <1>1. TypeOK
    BY NoJobTyped, AuthorityAssumption DEF Init, TypeOK, Works, PreContract
  <1>2. DOMAIN registry.audit = {}
    BY DEF Init, EmptyRegistry
  <1>3. Recorded /\ ConsumedOnce
    BY <1>2 DEF Init, Recorded, ConsumedOnce
  <1>4. \A p \in Procs : Local(p)
    BY DEF Init, Local, Holding
  <1> QED
    BY <1>1, <1>3, <1>4 DEF Inductive

LEMMA NextInductive == Inductive /\ [Next]_vars => Inductive'
  <1> SUFFICES ASSUME Inductive, [Next]_vars PROVE Inductive'
    OBVIOUS
  <1>1. CASE UNCHANGED vars
    <2>1. UNCHANGED <<registry, registryLock, context, expired, pc, job, accepted, faults>>
      BY <1>1 DEF vars, context
    <2>2. TypeOK'
      BY <2>1 DEF Inductive, TypeOK, context
    <2>3. Recorded' /\ ConsumedOnce'
      BY <2>1 DEF Inductive, Recorded, ConsumedOnce, Consumption
    <2>4. ASSUME NEW p \in Procs PROVE Local(p)'
      BY <2>1 DEF Inductive, Local
    <2> QED
      BY <2>2, <2>3, <2>4 DEF Inductive
  <1>2. ASSUME NEW p \in Procs, BeginCreate(p) \/ BeginRevoke(p) \/ BeginUse(p)
        PROVE  Inductive'
    BY <1>2, BeginKeeps
  <1>3. ASSUME NEW p \in Procs, Step(p) PROVE Inductive'
    BY <1>3, EnterKeeps, EnterFailsKeeps, LocateKeeps, RefusedKeeps, TakeLockKeeps,
       LockBusyKeeps, ApplyKeeps, AbortingKeeps, ReplaceKeeps, AcknowledgeKeeps, EndsKeep,
       ReleaseKeeps
       DEF Step
  <1>4. ASSUME NEW p \in Procs, Fails(p) PROVE Inductive'
    BY <1>4, RefusedKeeps, LockBusyKeeps, AbortingKeeps, CommitFailsKeeps, EndsKeep DEF Fails
  <1> QED
    BY <1>1, <1>2, <1>3, <1>4, AroundKeeps DEF Next

THEOREM RegistryInvariant == Spec => []Inductive
  BY InitInductive, NextInductive, PTL DEF Spec

\* The shapes hold for any number of processes, repositories and grants.
THEOREM RegistryTypeOK == Spec => []TypeOK
  <1>1. Inductive => TypeOK
    BY DEF Inductive
  <1> QED
    BY <1>1, RegistryInvariant, PTL

\* Every accepted use has its own durable event, and a one-shot grant at most one.
THEOREM RegistryAcceptedOnRecord == Spec => []AcceptedOnRecord
  <1>1. ASSUME Inductive PROVE AcceptedOnRecord
    <2>1. Recorded /\ ConsumedOnce
      BY <1>1 DEF Inductive
    <2>2. \A a, b \in accepted : a.grant = b.grant /\ a.grant \in OneShot => a.revision = b.revision
      <3>1. SUFFICES ASSUME NEW a \in accepted, NEW b \in accepted,
                            a.grant = b.grant, a.grant \in OneShot
                     PROVE  a.revision = b.revision
        OBVIOUS
      <3>2. ASSUME NEW c \in accepted, c.grant \in OneShot
            PROVE  /\ c.revision \in DOMAIN registry.audit /\ Consumption(c.revision)
                   /\ registry.audit[c.revision].grant = c.grant
        <4>1. UseKind(c.grant) = "GRANT_CONSUMED"
          BY <3>2 DEF UseKind
        <4>2. /\ c.revision \in DOMAIN registry.audit
              /\ registry.audit[c.revision] = [kind |-> UseKind(c.grant), grant |-> c.grant]
          BY <2>1, <3>2 DEF Recorded
        <4> QED
          BY <4>1, <4>2 DEF Consumption
      <3>3. registry.audit[a.revision].grant = registry.audit[b.revision].grant
        BY <3>1, <3>2
      <3> QED
        BY <2>1, <3>1, <3>2, <3>3 DEF ConsumedOnce
    <2> QED
      BY <2>1, <2>2 DEF Recorded, AcceptedOnRecord
  <1> QED
    BY <1>1, RegistryInvariant, PTL

\* Only the lock's owner writes the registry, or settles the lock.
LEMMA LockGuards ==
    ASSUME Inductive, [Next]_vars, registryLock = Left
    PROVE  registryLock' = Left /\ registry' = registry
  <1>1. Left # Free /\ Left \notin Procs
    BY AuthorityAssumption
  <1>2. CASE UNCHANGED vars
    BY <1>2 DEF vars
  <1>3. ASSUME NEW p \in Procs, BeginCreate(p) \/ BeginRevoke(p) \/ BeginUse(p) \/ Step(p) \/ Fails(p)
        PROVE  registryLock' = Left /\ registry' = registry
    <2>1. pc[p] \notin Holding /\ registryLock # p
      BY <1>1 DEF Inductive, Local
    <2>2. CASE BeginCreate(p) \/ BeginRevoke(p) \/ BeginUse(p)
      BY <2>2 DEF BeginCreate, BeginRevoke, BeginUse, BeginOnGrant
    <2>3. CASE Step(p)
      BY <1>1, <2>1, <2>3
         DEF Step, Enter, EnterFails, Locate, LocateRefused, Recheck, RecheckRefused, TakeLock,
             MayLock, LockBusy, Apply, ApplyRefused, Replace, ReplaceRefused, Acknowledge,
             CommitUncertain, Release, Abort, Holding
    <2>4. CASE Fails(p)
      BY <1>1, <2>1, <2>4
         DEF Fails, LocateFails, LockFails, MayLock, PersistFails, CommitFails, ReleaseFails,
             Crash, Holding
    <2> QED
      BY <1>3, <2>2, <2>3, <2>4
  <1>4. CASE \/ \E r \in Repos : Govern(r) \/ RecoverStateLock(r)
             \/ \E g \in Grants : Expire(g)
    BY <1>4 DEF Govern, RecoverStateLock, Expire
  <1> QED
    BY <1>2, <1>3, <1>4 DEF Next

\* A registry whose lock was retained is never written again.
THEOREM RegistryFreezes == Spec => RetainedLockFreezes
  <1>1. Inductive /\ [Next]_vars =>
           [registryLock = Left => registryLock' = Left /\ registry' = registry]_vars
    BY LockGuards
  <1> QED
    BY <1>1, RegistryInvariant, PTL DEF Spec, RetainedLockFreezes

-----------------------------------------------------------------------------
(* The commits.                                                            *)

\* The registry changes by the commit of the process that holds its lock, on
\* what that process found in the file, and checked right before.
LEMMA CommitOnly ==
    ASSUME Inductive, [Next]_vars, registry' # registry
    PROVE  \E p \in Procs : /\ pc[p] = "replace"
                            /\ job[p].read = registry
                            /\ Applies(job[p], registry)
                            /\ Bounded(job[p], registry)
                            /\ HasRoom(registry)
                            /\ registry' = Proposed(job[p], registry)
                            /\ accepted' = accepted
  <1>1. \E p \in Procs : Replace(p) \/ CommitFails(p)
    BY ZenonT(60) DEF Next, vars, context, BeginCreate, BeginRevoke, BeginUse, BeginOnGrant, Step, Enter,
           EnterFails, Locate, LocateRefused, Recheck, RecheckRefused, TakeLock, LockBusy, Apply,
           ApplyRefused, ReplaceRefused, Acknowledge, CommitUncertain, Release, Abort, Fails,
           LocateFails, LockFails, PersistFails, ReleaseFails, Crash, Govern, Expire,
           RecoverStateLock
  <1>2. PICK p \in Procs : Replace(p) \/ CommitFails(p)
    BY <1>1
  <1>3. /\ pc[p] = "replace" /\ Applies(job[p], job[p].read)
        /\ registry' = Proposed(job[p], job[p].read) /\ accepted' = accepted
    BY <1>2 DEF Replace, CommitFails
  <1>4. job[p].read = registry /\ HasRoom(registry) /\ Bounded(job[p], registry)
    BY <1>3 DEF Inductive, Local
  <1> QED
    BY <1>3, <1>4

\* A use is recorded only of a grant that may then be used.
THEOREM RegistryFresh == Spec => FreshWhenRecorded
  <1>1. ASSUME Inductive, [Next]_vars, NEW g \in Grants,
               registry'.audit = Append(registry.audit, [kind |-> UseKind(g), grant |-> g])
        PROVE  Usable(registry, g, "ACTIVE")
    <2>1. registry.audit \in Seq(Event)
      BY <1>1 DEF Inductive, TypeOK, Registry
    <2>2. registry' # registry
      <3>1. Len(registry'.audit) = Len(registry.audit) + 1 /\ Len(registry.audit) \in Nat
        BY <1>1, <2>1
      <3> QED
        BY <3>1
    <2>3. PICK p \in Procs : /\ pc[p] = "replace"
                             /\ Applies(job[p], registry)
                             /\ registry' = Proposed(job[p], registry)
      BY <1>1, <2>2, CommitOnly
    <2>4. /\ job[p] \in Job /\ job[p].op # "none"
          /\ job[p].grant \in Grants /\ job[p].repo \in Repos
      BY <1>1, <2>3, CallKept
    <2>5. registry'.audit = Append(registry.audit, [kind |-> Kind(job[p]), grant |-> job[p].grant])
      BY <1>1, <2>3, <2>4, ProposedTyped DEF Inductive, TypeOK
    <2>6. [kind |-> Kind(job[p]), grant |-> job[p].grant] = [kind |-> UseKind(g), grant |-> g]
      <3> DEFINE e == [kind |-> Kind(job[p]), grant |-> job[p].grant]
                 f == [kind |-> UseKind(g), grant |-> g]
                 n == Len(registry.audit) + 1
      <3>1. Append(registry.audit, e) = Append(registry.audit, f)
        BY <1>1, <2>5
      <3> HIDE DEF e, f
      <3>2. Append(registry.audit, e)[n] = e /\ Append(registry.audit, f)[n] = f
        BY <2>1
      <3>3. e = f
        BY <3>1, <3>2
      <3> QED
        BY <3>3 DEF e, f
    <2>7. job[p].grant = g /\ Kind(job[p]) = UseKind(g)
      BY <2>6
    <2>8. job[p].op = "use"
      BY <2>4, <2>7 DEF Kind, UseKind, Job
    <2> QED
      BY <2>3, <2>7, <2>8 DEF Applies
  <1>2. Inductive /\ [Next]_vars =>
           [\A g \in Grants :
               registry'.audit = Append(registry.audit, [kind |-> UseKind(g), grant |-> g])
                   => Usable(registry, g, "ACTIVE")]_vars
    BY <1>1
  <1> QED
    BY <1>2, RegistryInvariant, PTL DEF Spec, FreshWhenRecorded

-----------------------------------------------------------------------------
(* The public locators.                                                    *)

\* A creation past its locator has written it, and no step takes one away.
Written(p) ==
    job[p].op = "create" => /\ pc[p] # "recheck"
                            /\ pc[p] \in {"lock"} \cup Holding => job[p].repo \in reference
LocatorsKept == GrantsLocated /\ \A p \in Procs : Written(p)

LEMMA ReferenceGrows == ASSUME [Next]_vars PROVE reference \subseteq reference'
  BY ZenonT(60) DEF Next, vars, context, BeginCreate, BeginRevoke, BeginUse, BeginOnGrant, Step,
         Enter, EnterFails, Locate, LocateRefused, Recheck, RecheckRefused, TakeLock, LockBusy,
         Apply, ApplyRefused, Replace, ReplaceRefused, Acknowledge, CommitUncertain, Release,
         Abort, Fails, LocateFails, LockFails, PersistFails, CommitFails, ReleaseFails, Crash,
         Govern, Expire, RecoverStateLock

\* However a call or a transaction ends, it creates nothing any more.
LEMMA EndedWritten == ASSUME NEW p \in Procs, Ended(p) PROVE Written(p)'
  BY DEF Ended, Written, Holding

\* Before its locator a call has no grant to commit.
LEMMA BeginWritten ==
    ASSUME Inductive, NEW p \in Procs, BeginCreate(p) \/ BeginRevoke(p) \/ BeginUse(p)
    PROVE  Written(p)'
  <1>1. pc'[p] = "enter"
    <2>1. pc \in [Procs -> Places]
      BY DEF Inductive, TypeOK, Places
    <2>2. pc' = [pc EXCEPT ![p] = "enter"]
      BY Zenon DEF BeginCreate, BeginRevoke, BeginUse, BeginOnGrant, Goto
    <2> QED
      BY <2>1, <2>2
  <1> QED
    BY <1>1 DEF Written, Holding

LEMMA EnterWritten ==
    ASSUME Inductive, NEW p \in Procs,
           Enter(p) \/ EnterFails(p) \/ Locate(p) \/ LocateRefused(p)
    PROVE  Written(p)'
  <1>1. job[p] \in Job /\ TypeOK
    BY DEF Inductive, TypeOK
  <1>2. CASE Enter(p)
    <2>1. job'[p].op = job[p].op
      BY <1>1, <1>2 DEF Enter, Goto, TypeOK, Job
    <2>2. job[p].op = "create" => pc'[p] = "locate"
      BY <1>1, <1>2 DEF Enter, Goto, TypeOK
    <2> QED
      BY <2>1, <2>2 DEF Written, Holding
  <1>3. CASE EnterFails(p)
    <2>1. CASE Reject(p)
      BY <1>1, <2>1, RejectMoves DEF Written
    <2>2. CASE Goto(p, "idle", NoJob)
      BY <1>1, <2>2 DEF Goto, TypeOK, Written, Holding
    <2> QED
      BY <1>3, <2>1, <2>2 DEF EnterFails
  <1>4. CASE Locate(p)
    BY <1>1, <1>4 DEF Locate, Goto, TypeOK, Written
  <1>5. CASE LocateRefused(p)
    BY <1>1, <1>5, ReturnEnds, EndedWritten DEF LocateRefused
  <1> QED
    BY <1>2, <1>3, <1>4, <1>5

\* In its transaction a call keeps what it is and where.
LEMMA TransactionWritten ==
    ASSUME Inductive, NEW p \in Procs, Written(p), reference \subseteq reference',
           \/ TakeLock(p) \/ Apply(p) \/ ApplyRefused(p) \/ Replace(p)
           \/ ReplaceRefused(p) \/ Acknowledge(p) \/ PersistFails(p)
    PROVE  Written(p)'
  <1>1. job[p] \in Job /\ TypeOK
    BY DEF Inductive, TypeOK
  <1>2. /\ job'[p].op = job[p].op /\ job'[p].repo = job[p].repo
        /\ pc'[p] # "recheck"
    <2>1. PICK place \in Places, e \in {job[p].error, "CORRUPT", "precondition", "PERSISTENCE_FAILED"},
               reg \in {job[p].read, registry} :
                  Goto(p, place, [[job[p] EXCEPT !.read = reg] EXCEPT !.error = e])
                  /\ place # "recheck"
      <3>1. /\ job[p] = [[job[p] EXCEPT !.read = job[p].read] EXCEPT !.error = job[p].error]
            /\ [job[p] EXCEPT !.read = registry]
                   = [[job[p] EXCEPT !.read = registry] EXCEPT !.error = job[p].error]
            /\ \A e \in {"CORRUPT", "precondition", "PERSISTENCE_FAILED"} :
                  [job[p] EXCEPT !.error = e]
                      = [[job[p] EXCEPT !.read = job[p].read] EXCEPT !.error = e]
        BY <1>1 DEF Job
      <3> QED
        BY <3>1 DEF Places, TakeLock, Apply, ApplyRefused, Replace, ReplaceRefused, Acknowledge,
                    PersistFails
    <2> QED
      BY <1>1, <2>1 DEF Goto, TypeOK, Job
  <1>3. pc[p] \in {"lock"} \cup Holding
    BY DEF TakeLock, Apply, ApplyRefused, Replace, ReplaceRefused, Acknowledge, PersistFails,
           Holding
  <1> QED
    BY <1>2, <1>3 DEF Written

LEMMA RecheckWritten ==
    ASSUME Inductive, NEW p \in Procs, Written(p), Recheck(p) \/ RecheckRefused(p)
    PROVE  Written(p)'
  <1>1. job[p] \in Job /\ TypeOK
    BY DEF Inductive, TypeOK
  <1>2. CASE Recheck(p)
    BY <1>1, <1>2 DEF Recheck, Goto, TypeOK, Written
  <1>3. CASE RecheckRefused(p)
    BY <1>1, <1>3, ReturnEnds, EndedWritten DEF RecheckRefused
  <1> QED
    BY <1>2, <1>3

LEMMA EndsWritten ==
    ASSUME Inductive, NEW p \in Procs,
           \/ LockBusy(p) \/ CommitUncertain(p) \/ Release(p) \/ Abort(p) \/ LocateFails(p)
           \/ LockFails(p) \/ CommitFails(p) \/ ReleaseFails(p) \/ Crash(p)
    PROVE  Written(p)'
  <1>1. TypeOK
    BY DEF Inductive
  <1>2. CASE Crash(p)
    BY <1>1, <1>2 DEF Crash, Goto, TypeOK, Written, Holding
  <1>3. CASE ~Crash(p)
    <2>1. Ended(p)
      BY <1>1, <1>3, ReturnEnds, ErrorEnds
         DEF LockBusy, CommitUncertain, LeaveLock, Release, Abort, LocateFails, LockFails,
             CommitFails, ReleaseFails
    <2> QED
      BY <2>1, EndedWritten
  <1> QED
    BY <1>2, <1>3

\* A call's step moves that call only.
LEMMA OnlyTheCaller ==
    ASSUME Inductive, NEW p \in Procs,
           BeginCreate(p) \/ BeginRevoke(p) \/ BeginUse(p) \/ Step(p) \/ Fails(p)
    PROVE  \A q \in Procs \ {p} : pc'[q] = pc[q] /\ job'[q] = job[q]
  <1>1. \E place, j : Goto(p, place, j)
    BY ZenonT(60) DEF BeginCreate, BeginRevoke, BeginUse, BeginOnGrant, Step, Enter, EnterFails,
           Locate, LocateRefused, Recheck, RecheckRefused, TakeLock, LockBusy, Apply,
           ApplyRefused, Replace, ReplaceRefused, Acknowledge, CommitUncertain, LeaveLock,
           Release, Abort, Fails, LocateFails, LockFails, PersistFails, CommitFails,
           ReleaseFails, Crash, AfterError, Reject, Return
  <1>2. \A place, j : Goto(p, place, j) => \A q \in Procs \ {p} : pc'[q] = pc[q] /\ job'[q] = job[q]
    <2>1. DOMAIN pc = Procs /\ DOMAIN job = Procs
      BY DEF Inductive, TypeOK
    <2> QED
      BY <2>1 DEF Goto
  <1> QED
    BY <1>1, <1>2

\* The registry gains a grant by a creation only, whose locator is written.
LEMMA LocatorsStep ==
    ASSUME Inductive, LocatorsKept, [Next]_vars
    PROVE  LocatorsKept'
  <1>1. reference \subseteq reference'
    BY ReferenceGrows
  <1>2. GrantsLocated'
    <2>1. CASE registry' = registry
      BY <1>1, <2>1 DEF LocatorsKept, GrantsLocated, Existing
    <2>2. CASE registry' # registry
      <3>1. PICK p \in Procs : /\ pc[p] = "replace"
                               /\ Bounded(job[p], registry)
                               /\ registry' = Proposed(job[p], registry)
        BY <2>2, CommitOnly
      <3>2. /\ job[p] \in Job /\ job[p].op # "none" /\ registry \in Registry
            /\ job[p].grant \in Grants /\ job[p].repo \in Repos
        BY <3>1, CallKept DEF Inductive, TypeOK
      <3>3. \A g \in Grants : g # job[p].grant => registry'.rows[g] = registry.rows[g]
        BY <3>1, <3>2, ProposedTyped
      <3>4. job[p].grant \in Existing(registry') => registry'.rows[job[p].grant].repo \in reference
        <4>1. CASE job[p].op = "create"
          <5>1. registry'.rows[job[p].grant].repo = job[p].repo
            BY <3>1, <3>2, <4>1 DEF Proposed, Registry
          <5>2. job[p].repo \in reference
            BY <3>1, <4>1 DEF LocatorsKept, Written, Holding
          <5> QED
            BY <5>1, <5>2
        <4>2. CASE job[p].op # "create"
          <5>1. registry.rows[job[p].grant].status # "NONE"
            BY <3>1, <3>2, <4>2 DEF Bounded, Job
          <5>2. registry'.rows[job[p].grant].repo = registry.rows[job[p].grant].repo
            BY <3>1, <3>2, <4>2 DEF Proposed, Registry, Row
          <5> QED
            BY <3>2, <5>1, <5>2 DEF LocatorsKept, GrantsLocated, Existing
        <4> QED
          BY <4>1, <4>2
      <3> QED
        BY <1>1, <3>3, <3>4 DEF LocatorsKept, GrantsLocated, Existing
    <2> QED
      BY <2>1, <2>2
  <1>3. CASE UNCHANGED <<pc, job>>
    BY <1>1, <1>2, <1>3 DEF LocatorsKept, Written
  <1>4. ASSUME NEW p \in Procs, BeginCreate(p) \/ BeginRevoke(p) \/ BeginUse(p) \/ Step(p) \/ Fails(p)
        PROVE  LocatorsKept'
    <2>1. Written(p)'
      BY <1>1, <1>4, BeginWritten, EnterWritten, TransactionWritten, RecheckWritten, EndsWritten
         DEF Step, Fails, LocatorsKept
    <2>2. \A q \in Procs \ {p} : pc'[q] = pc[q] /\ job'[q] = job[q]
      BY <1>4, OnlyTheCaller
    <2>3. \A q \in Procs \ {p} : Written(q)'
      BY <1>1, <2>2 DEF LocatorsKept, Written
    <2> QED
      BY <1>2, <2>1, <2>3 DEF LocatorsKept
  <1>5. CASE \/ \E r \in Repos : Govern(r) \/ RecoverStateLock(r)
             \/ \E g \in Grants : Expire(g)
    <2>1. UNCHANGED <<pc, job>>
      BY <1>5 DEF Govern, RecoverStateLock, Expire
    <2> QED
      BY <1>3, <2>1
  <1> QED
    BY <1>3, <1>4, <1>5 DEF Next, vars

\* A repository whose grants are in the registry has its public locator in the
\* working tree: the first grant writes it before it takes the registry's lock.
THEOREM RegistryLocated == Spec => []GrantsLocated
  <1>1. Init => LocatorsKept
    BY DEF Init, LocatorsKept, GrantsLocated, Written, Existing, EmptyRegistry, NoRow, NoJob
  <1>2. Inductive /\ Inductive' /\ LocatorsKept /\ [Next]_vars => LocatorsKept'
    BY LocatorsStep
  <1>3. LocatorsKept => GrantsLocated
    BY DEF LocatorsKept
  <1> QED
    BY <1>1, <1>2, <1>3, RegistryInvariant, PTL DEF Spec

-----------------------------------------------------------------------------
(* The snapshot that is validated before it is written.                    *)

\* What the validation asks of one grant, part by part.
Accounted(g) ==
    LET status == registry.rows[g].status
    IN  /\ EventsOf(g) # {} => status # "NONE"
        /\ status # "NONE" => Cardinality(EventOf(g, "GRANT_CREATED")) = 1
        /\ Cardinality(EventOf(g, "GRANT_REVOKED")) = IF status = "REVOKED" THEN 1 ELSE 0
        /\ Cardinality(EventOf(g, "GRANT_CONSUMED")) = IF status = "CONSUMED" THEN 1 ELSE 0
SortedUses(g) ==
    /\ EventOf(g, "GRANT_CONSUMED") # {} => g \in OneShot
    /\ EventOf(g, "GRANT_USE_RECORDED") # {} => g \notin OneShot
    /\ \A i \in EventOf(g, "GRANT_USE_RECORDED"), j \in EventOf(g, "GRANT_REVOKED") : i < j
Bound(g) == registry.rows[g].status # "NONE" => registry.rows[g].repo \in registry.bound

ValidSnapshot ==
    /\ Len(registry.audit) <= MaxAudit
    /\ IsFiniteSet(Existing(registry)) /\ Cardinality(Existing(registry)) <= GrantLimit
    /\ \A g \in Grants : Accounted(g) /\ SortedUses(g) /\ Bound(g)

\* An appended event joins the events of its grant and kind, at the end.
LEMMA EventsAppended ==
    ASSUME registry.audit \in Seq(Event), NEW e \in Event,
           registry'.audit = Append(registry.audit, e), NEW g, NEW kind
    PROVE  LET n == Len(registry.audit) + 1
               match == e.grant = g /\ e.kind = kind
           IN  /\ EventsOf(g)' = EventsOf(g) \cup IF e.grant = g THEN {n} ELSE {}
               /\ EventOf(g, kind)' = EventOf(g, kind) \cup IF match THEN {n} ELSE {}
               /\ \A i \in EventOf(g, kind) : i \in Nat /\ i < n
               /\ IsFiniteSet(EventOf(g, kind)) /\ IsFiniteSet(EventOf(g, kind)')
               /\ Cardinality(EventOf(g, kind)) \in Nat
               /\ Cardinality(EventOf(g, kind)')
                     = Cardinality(EventOf(g, kind)) + IF match THEN 1 ELSE 0
  <1> DEFINE n == Len(registry.audit) + 1
             match == e.grant = g /\ e.kind = kind
             old == EventOf(g, kind)
             new == EventOf(g, kind)'
  <1>1. /\ n \in Nat /\ DOMAIN registry.audit = 1..(n - 1) /\ DOMAIN registry'.audit = 1..n
        /\ registry'.audit[n] = e
        /\ \A i \in 1..(n - 1) : registry'.audit[i] = registry.audit[i]
    OBVIOUS
  <1>2. EventsOf(g)' = EventsOf(g) \cup IF e.grant = g THEN {n} ELSE {}
    BY <1>1 DEF EventsOf
  <1>3. new = old \cup IF match THEN {n} ELSE {}
    BY <1>1 DEF EventOf, EventsOf
  <1>4. old \subseteq 1..(n - 1)
    BY <1>1 DEF EventOf, EventsOf
  <1>5. IsFiniteSet(old) /\ Cardinality(old) \in Nat
    <2>1. IsFiniteSet(1..(n - 1))
      BY <1>1, FS_Interval
    <2> HIDE DEF n, old
    <2> QED
      BY <1>4, <2>1, FS_Subset, FS_CardinalityType
  <1>6. n \notin old /\ \A i \in old : i \in Nat /\ i < n
    BY <1>1, <1>4
  <1>7. IsFiniteSet(new) /\ Cardinality(new) = Cardinality(old) + IF match THEN 1 ELSE 0
    <2> HIDE DEF n, old, new, match
    <2>1. CASE match
      <3>1. new = old \cup {n}
        BY <1>3, <2>1
      <3> QED
        BY <1>5, <1>6, <2>1, <3>1, FS_AddElement
    <2>2. CASE ~match
      <3>1. new = old
        BY <1>3, <2>2
      <3> QED
        BY <1>5, <2>2, <3>1
    <2> QED
      BY <2>1, <2>2
  <1> QED
    BY <1>2, <1>3, <1>5, <1>6, <1>7

\* The commit of p, in terms of the grant it is about.
Commit(p) ==
    /\ pc[p] = "replace"
    /\ Applies(job[p], registry)
    /\ Bounded(job[p], registry)
    /\ HasRoom(registry)
    /\ registry' = Proposed(job[p], registry)

\* Where the grant's status goes with each kind of event.
Kinship(j, old, new) ==
    \/ j.op = "create" /\ Kind(j) = "GRANT_CREATED" /\ old = "NONE" /\ new = "ACTIVE"
    \/ j.op = "revoke" /\ Kind(j) = "GRANT_REVOKED" /\ old = "ACTIVE" /\ new = "REVOKED"
    \/ /\ j.op = "use" /\ j.grant \in OneShot
       /\ Kind(j) = "GRANT_CONSUMED" /\ old = "ACTIVE" /\ new = "CONSUMED"
    \/ /\ j.op = "use" /\ j.grant \notin OneShot
       /\ Kind(j) = "GRANT_USE_RECORDED" /\ old = "ACTIVE" /\ new = "ACTIVE"
    \/ j.op = "reject" /\ Kind(j) = "GRANT_USE_REJECTED" /\ old = new /\ old # "NONE"

LEMMA CommitMoves ==
    ASSUME Inductive, NEW p \in Procs, Commit(p)
    PROVE  LET g == job[p].grant
               old == registry.rows[g].status
               new == registry'.rows[g].status
           IN  /\ g \in Grants /\ job[p].repo \in Repos
               /\ old \in Statuses /\ new \in Statuses
               /\ Kinship(job[p], old, new)
               /\ [kind |-> Kind(job[p]), grant |-> g] \in Event
               /\ registry.audit \in Seq(Event)
               /\ registry'.audit = Append(registry.audit, [kind |-> Kind(job[p]), grant |-> g])
               /\ \A h \in Grants : h # g => registry'.rows[h] = registry.rows[h]
  <1>1. /\ job[p] \in Job /\ job[p].op # "none" /\ registry \in Registry
        /\ job[p].grant \in Grants /\ job[p].repo \in Repos
    BY CallKept DEF Commit, Inductive, TypeOK
  <1>2. /\ registry' \in Registry
        /\ registry'.audit = Append(registry.audit, [kind |-> Kind(job[p]), grant |-> job[p].grant])
        /\ \A h \in Grants : h # job[p].grant => registry'.rows[h] = registry.rows[h]
    BY <1>1, ProposedTyped DEF Commit
  <1>3. Kinship(job[p], registry.rows[job[p].grant].status, registry'.rows[job[p].grant].status)
    <2> DEFINE j == job[p]
               g == job[p].grant
               old == registry.rows[g].status
               new == Proposed(j, registry).rows[g].status
    <2>1. new = registry'.rows[g].status
      BY DEF Commit
    <2>2. j.op \in {"create", "revoke", "use", "reject"}
      BY <1>1 DEF Job
    <2>3. CASE j.op = "create"
      BY <2>1, <2>3 DEF Commit, Bounded, Kinship, Kind
    <2>4. CASE j.op = "revoke"
      BY <2>1, <2>4 DEF Commit, Bounded, Kinship, Kind
    <2>5. CASE j.op = "use"
      BY <2>1, <2>5 DEF Commit, Bounded, Kinship, Kind, UseKind
    <2>6. CASE j.op = "reject"
      BY <2>1, <2>6 DEF Commit, Bounded, Kinship, Kind
    <2> QED
      BY <2>2, <2>3, <2>4, <2>5, <2>6
  <1>4. [kind |-> Kind(job[p]), grant |-> job[p].grant] \in Event
    BY <1>1 DEF Kind, UseKind, Event, Kinds
  <1> QED
    BY <1>1, <1>2, <1>3, <1>4 DEF Registry, Row

LEMMA CommitAccounts ==
    ASSUME Inductive, ValidSnapshot, NEW p \in Procs, Commit(p), NEW g \in Grants
    PROVE  Accounted(g)' /\ SortedUses(g)'
  <1> DEFINE n == Len(registry.audit) + 1
             old == registry.rows[g].status
             new == registry'.rows[g].status
             Count(kind) == Cardinality(EventOf(g, kind))
             CountNow(kind) == Cardinality(EventOf(g, kind)')
  <1>0. registry.audit \in Seq(Event)
    BY CommitMoves
  <1>1. PICK e \in Event : /\ registry'.audit = Append(registry.audit, e)
                           /\ e.grant = job[p].grant /\ e.kind = Kind(job[p])
    BY CommitMoves
  <1>2. Accounted(g) /\ SortedUses(g)
    BY DEF ValidSnapshot
  <1>3. /\ EventsOf(g)' = EventsOf(g) \cup IF e.grant = g THEN {n} ELSE {}
        /\ \A kind : /\ EventOf(g, kind)' = EventOf(g, kind) \cup
                                              IF e.grant = g /\ e.kind = kind THEN {n} ELSE {}
                     /\ \A i \in EventOf(g, kind) : i \in Nat /\ i < n
                     /\ IsFiniteSet(EventOf(g, kind))
                     /\ Count(kind) \in Nat
                     /\ CountNow(kind)
                           = Count(kind) + IF e.grant = g /\ e.kind = kind THEN 1 ELSE 0
    <2>1. SUFFICES ASSUME NEW kind
                   PROVE  /\ EventsOf(g)' = EventsOf(g) \cup IF e.grant = g THEN {n} ELSE {}
                          /\ EventOf(g, kind)' = EventOf(g, kind) \cup
                                                 IF e.grant = g /\ e.kind = kind THEN {n} ELSE {}
                          /\ \A i \in EventOf(g, kind) : i \in Nat /\ i < n
                          /\ IsFiniteSet(EventOf(g, kind))
                          /\ Count(kind) \in Nat
                          /\ CountNow(kind)
                                = Count(kind) + IF e.grant = g /\ e.kind = kind THEN 1 ELSE 0
      OBVIOUS
    <2>2. EventsOf(g)' = EventsOf(g) \cup IF e.grant = g THEN {n} ELSE {}
      BY <1>0, <1>1, EventsAppended
    <2>3. EventOf(g, kind)' = EventOf(g, kind) \cup IF e.grant = g /\ e.kind = kind THEN {n} ELSE {}
      BY <1>0, <1>1, EventsAppended
    <2>4. /\ \A i \in EventOf(g, kind) : i \in Nat /\ i < n
          /\ IsFiniteSet(EventOf(g, kind))
          /\ Count(kind) \in Nat
      BY <1>0, <1>1, EventsAppended
    <2>5. CountNow(kind) = Count(kind) + IF e.grant = g /\ e.kind = kind THEN 1 ELSE 0
      BY <1>0, <1>1, EventsAppended
    <2> QED
      BY <2>2, <2>3, <2>4, <2>5
  <1>4. CASE g # job[p].grant
    <2>1. new = old
      BY <1>4, CommitMoves
    <2>2. EventsOf(g)' = EventsOf(g) /\ \A kind : EventOf(g, kind)' = EventOf(g, kind)
      BY <1>1, <1>3, <1>4
    <2> QED
      BY <1>2, <2>1, <2>2 DEF Accounted, SortedUses
  <1>5. CASE g = job[p].grant
    <2>1. Kinship(job[p], old, new)
      BY <1>5, CommitMoves
    <2>2. \A kind : Count(kind) = 0 => EventOf(g, kind) = {}
      BY <1>3, FS_EmptySet
    <2>3. Accounted(g)'
      <3>1. EventsOf(g)' # {} => new # "NONE"
        BY <2>1 DEF Kinship
      <3>2. new # "NONE" => CountNow("GRANT_CREATED") = 1
        <4>1. CASE old = "NONE"
          <5>1. EventsOf(g) = {}
            BY <1>2, <4>1 DEF Accounted
          <5>2. EventOf(g, "GRANT_CREATED") = {}
            BY <5>1 DEF EventOf
          <5>3. Count("GRANT_CREATED") = 0
            BY <5>2, FS_EmptySet
          <5>4. Kind(job[p]) = "GRANT_CREATED"
            BY <2>1, <4>1 DEF Kinship
          <5> QED
            BY <1>1, <1>3, <1>5, <5>3, <5>4
        <4>2. CASE old # "NONE"
          <5>1. Kind(job[p]) # "GRANT_CREATED"
            BY <2>1, <4>2 DEF Kinship
          <5> QED
            BY <1>1, <1>2, <1>3, <4>2, <5>1 DEF Accounted
        <4> QED
          BY <4>1, <4>2
      <3>3. CountNow("GRANT_REVOKED") = IF new = "REVOKED" THEN 1 ELSE 0
        <4>1. Count("GRANT_REVOKED") = IF old = "REVOKED" THEN 1 ELSE 0
          BY <1>2 DEF Accounted
        <4>2. CountNow("GRANT_REVOKED")
                 = Count("GRANT_REVOKED") + IF Kind(job[p]) = "GRANT_REVOKED" THEN 1 ELSE 0
          BY <1>1, <1>3, <1>5
        <4> QED
          BY <2>1, <4>1, <4>2 DEF Kinship
      <3>4. CountNow("GRANT_CONSUMED") = IF new = "CONSUMED" THEN 1 ELSE 0
        <4>1. Count("GRANT_CONSUMED") = IF old = "CONSUMED" THEN 1 ELSE 0
          BY <1>2 DEF Accounted
        <4>2. CountNow("GRANT_CONSUMED")
                 = Count("GRANT_CONSUMED") + IF Kind(job[p]) = "GRANT_CONSUMED" THEN 1 ELSE 0
          BY <1>1, <1>3, <1>5
        <4> QED
          BY <2>1, <4>1, <4>2 DEF Kinship
      <3> QED
        BY <3>1, <3>2, <3>3, <3>4 DEF Accounted
    <2>4. SortedUses(g)'
      <3>1. EventOf(g, "GRANT_CONSUMED")' # {} => g \in OneShot
        <4>1. Kind(job[p]) = "GRANT_CONSUMED" => g \in OneShot
          BY <1>5, <2>1 DEF Kinship
        <4> QED
          BY <1>1, <1>2, <1>3, <4>1 DEF SortedUses
      <3>2. EventOf(g, "GRANT_USE_RECORDED")' # {} => g \notin OneShot
        <4>1. Kind(job[p]) = "GRANT_USE_RECORDED" => g \notin OneShot
          BY <1>5, <2>1 DEF Kinship
        <4> QED
          BY <1>1, <1>2, <1>3, <4>1 DEF SortedUses
      <3>3. ASSUME NEW i \in EventOf(g, "GRANT_USE_RECORDED")',
                   NEW j \in EventOf(g, "GRANT_REVOKED")'
            PROVE  i < j
        <4>1. CASE Kind(job[p]) = "GRANT_USE_RECORDED"
          <5>1. old = "ACTIVE"
            BY <2>1, <4>1 DEF Kinship
          <5>2. Count("GRANT_REVOKED") = 0
            BY <1>2, <5>1 DEF Accounted
          <5>3. EventOf(g, "GRANT_REVOKED")' = {}
            BY <1>1, <1>3, <2>2, <4>1, <5>2
          <5> QED
            BY <3>3, <5>3
        <4>2. CASE Kind(job[p]) # "GRANT_USE_RECORDED"
          <5>1. i \in EventOf(g, "GRANT_USE_RECORDED") /\ i < n
            BY <1>1, <1>3, <3>3, <4>2
          <5>2. j \in EventOf(g, "GRANT_REVOKED") \/ j = n
            BY <1>3, <3>3
          <5> QED
            BY <1>2, <5>1, <5>2 DEF SortedUses
        <4> QED
          BY <4>1, <4>2
      <3> QED
        BY <3>1, <3>2, <3>3 DEF SortedUses
    <2> QED
      BY <2>3, <2>4
  <1> QED
    BY <1>4, <1>5

LEMMA CommitBinds ==
    ASSUME Inductive, ValidSnapshot, NEW p \in Procs, Commit(p), NEW g \in Grants
    PROVE  Bound(g)'
  <1>1. /\ job[p] \in Job /\ registry \in Registry /\ job[p].grant \in Grants
        /\ job[p].repo \in Repos
    BY CallKept DEF Commit, Inductive, TypeOK
  <1>2. /\ Kinship(job[p], registry.rows[job[p].grant].status, registry'.rows[job[p].grant].status)
        /\ \A h \in Grants : h # job[p].grant => registry'.rows[h] = registry.rows[h]
    BY CommitMoves
  <1>3. registry'.bound = registry.bound \cup IF job[p].op = "create" THEN {job[p].repo} ELSE {}
    BY DEF Commit, Proposed
  <1>4. Bound(g)
    BY DEF ValidSnapshot
  <1>5. CASE g # job[p].grant
    BY <1>2, <1>3, <1>4, <1>5 DEF Bound
  <1>6. CASE g = job[p].grant /\ job[p].op = "create"
    <2>1. registry'.rows[g].repo = job[p].repo
      BY <1>1, <1>6 DEF Commit, Proposed, Registry
    <2> QED
      BY <1>3, <1>6, <2>1 DEF Bound
  <1>7. CASE g = job[p].grant /\ job[p].op # "create"
    <2>1. registry'.rows[g].repo = registry.rows[g].repo
      BY <1>1, <1>7 DEF Commit, Proposed, Registry, Row
    <2>2. registry.rows[g].status # "NONE"
      BY <1>2, <1>7 DEF Kinship
    <2> QED
      BY <1>3, <1>4, <2>1, <2>2 DEF Bound
  <1> QED
    BY <1>5, <1>6, <1>7

LEMMA CommitFits ==
    ASSUME Inductive, ValidSnapshot, NEW p \in Procs, Commit(p)
    PROVE  /\ Len(registry'.audit) <= MaxAudit
           /\ IsFiniteSet(Existing(registry)') /\ Cardinality(Existing(registry)') <= GrantLimit
  <1> DEFINE g == job[p].grant
             S == Existing(registry)
             T == Existing(registry)'
  <1>1. Len(registry'.audit) <= MaxAudit
    <2>1. Len(registry'.audit) = Len(registry.audit) + 1 /\ Len(registry.audit) \in Nat
      <3>1. PICK e \in Event : registry'.audit = Append(registry.audit, e)
        BY CommitMoves
      <3>2. registry.audit \in Seq(Event)
        BY CommitMoves
      <3> QED
        BY <3>1, <3>2
    <2>2. HasRoom(registry) /\ MaxAudit \in Nat
      BY AuthorityAssumption DEF Commit
    <2> QED
      BY <2>1, <2>2 DEF HasRoom
  <1>2. /\ g \in Grants
        /\ Kinship(job[p], registry.rows[g].status, registry'.rows[g].status)
        /\ \A h \in Grants : h # g => registry'.rows[h] = registry.rows[h]
    BY CommitMoves
  <1>3. IsFiniteSet(S) /\ Cardinality(S) \in Nat /\ Cardinality(S) <= GrantLimit
    BY FS_CardinalityType DEF ValidSnapshot
  <1>4. CASE job[p].op = "create"
    <2>1. T = S \cup {g} /\ g \notin S
      BY <1>2, <1>4 DEF Existing, Kinship
    <2>2. Cardinality(S) < GrantLimit
      BY <1>4 DEF Commit, Applies, BelowLimit
    <2> HIDE DEF S, T, g
    <2>3. IsFiniteSet(T) /\ Cardinality(T) = Cardinality(S) + 1
      BY <1>3, <2>1, FS_AddElement
    <2> QED
      BY <1>1, <1>3, <2>2, <2>3, AuthorityAssumption DEF S, T
  <1>5. CASE job[p].op # "create"
    <2>1. T = S
      BY <1>2, <1>5 DEF Existing, Kinship
    <2> HIDE DEF S, T
    <2>2. IsFiniteSet(T) /\ Cardinality(T) <= GrantLimit
      BY <1>3, <2>1
    <2> QED
      BY <1>1, <2>2 DEF T
  <1> QED
    BY <1>4, <1>5

LEMMA SnapshotStep ==
    ASSUME Inductive, ValidSnapshot, [Next]_vars
    PROVE  ValidSnapshot'
  <1>1. CASE registry' = registry
    <2>1. /\ Existing(registry)' = Existing(registry)
          /\ \A g : EventsOf(g)' = EventsOf(g)
          /\ \A g, kind : EventOf(g, kind)' = EventOf(g, kind)
      BY <1>1 DEF Existing, EventOf, EventsOf
    <2>2. \A g \in Grants : Accounted(g)' /\ SortedUses(g)' /\ Bound(g)'
      BY <1>1, <2>1 DEF ValidSnapshot, Accounted, SortedUses, Bound
    <2> QED
      BY <1>1, <2>1, <2>2 DEF ValidSnapshot
  <1>2. CASE registry' # registry
    <2>1. PICK p \in Procs : Commit(p)
      BY <1>2, CommitOnly DEF Commit
    <2>2. \A g \in Grants : Accounted(g)' /\ SortedUses(g)' /\ Bound(g)'
      BY <2>1, CommitAccounts, CommitBinds
    <2>3. /\ Len(registry'.audit) <= MaxAudit
          /\ IsFiniteSet(Existing(registry)') /\ Cardinality(Existing(registry)') <= GrantLimit
      BY <2>1, CommitFits
    <2> QED
      BY <2>2, <2>3 DEF ValidSnapshot
  <1> QED
    BY <1>1, <1>2

LEMMA SnapshotStarts == Init => ValidSnapshot
  <1> SUFFICES ASSUME Init PROVE ValidSnapshot
    OBVIOUS
  <1>1. /\ registry.audit = <<>> /\ Len(registry.audit) = 0
        /\ \A g \in Grants : registry.rows[g].status = "NONE"
    BY DEF Init, EmptyRegistry, NoRow
  <1>2. Existing(registry) = {}
    BY <1>1 DEF Existing
  <1>3. /\ Len(registry.audit) <= MaxAudit
        /\ IsFiniteSet(Existing(registry)) /\ Cardinality(Existing(registry)) <= GrantLimit
    BY <1>1, <1>2, FS_EmptySet, AuthorityAssumption
  <1>4. \A g, kind : EventsOf(g) = {} /\ EventOf(g, kind) = {}
    BY <1>1 DEF EventsOf, EventOf
  <1>5. \A g, kind : Cardinality(EventOf(g, kind)) = 0
    <2>1. SUFFICES ASSUME NEW g, NEW kind PROVE Cardinality(EventOf(g, kind)) = 0
      OBVIOUS
    <2>2. EventOf(g, kind) = {}
      BY <1>4
    <2> QED
      BY <2>2, FS_EmptySet
  <1>6. \A g \in Grants : Accounted(g) /\ SortedUses(g) /\ Bound(g)
    BY <1>1, <1>4, <1>5 DEF Accounted, SortedUses, Bound
  <1> QED
    BY <1>3, <1>6 DEF ValidSnapshot

\* The validation of the snapshot before it is written never refuses what the
\* mutation made of a valid one: limits, one event for each turn of a grant's
\* life, no use recorded after the revocation.
THEOREM RegistrySnapshotValid == Spec => []SnapshotValid
  <1>1. Init => ValidSnapshot
    BY SnapshotStarts
  <1>2. Inductive /\ ValidSnapshot /\ [Next]_vars => ValidSnapshot'
    BY SnapshotStep
  <1>3. ValidSnapshot => SnapshotValid
    BY DEF ValidSnapshot, SnapshotValid, Accounted, SortedUses, Bound
  <1> QED
    BY <1>1, <1>2, <1>3, RegistryInvariant, PTL DEF Spec

-----------------------------------------------------------------------------
(* Refinement.                                                             *)

\* A commit adds its event to the recorded uses, when it is one.
LEMMA CommitUses ==
    ASSUME Inductive, NEW e \in Event, registry' \in Registry,
           registry'.audit = Append(registry.audit, e)
    PROVE  LET n == Len(registry.audit) + 1
           IN  /\ RecordedUses' = RecordedUses \cup
                     (IF e.kind \in UseKinds THEN {[grant |-> e.grant, revision |-> n]} ELSE {})
               /\ \A u \in RecordedUses : u.revision < n
               /\ n \in Nat \ {0}
  <1> DEFINE n == Len(registry.audit) + 1
  <1>1. /\ registry.audit \in Seq(Event)
        /\ DOMAIN registry'.audit = 1..n
        /\ DOMAIN registry.audit = 1..(n - 1)
        /\ \A i \in 1..(n - 1) : registry'.audit[i] = registry.audit[i]
        /\ registry'.audit[n] = e
        /\ n \in Nat \ {0}
    BY DEF Inductive, TypeOK, Registry
  <1> HIDE DEF n
  <1>2. \A i : i \in 1..n <=> i \in 1..(n - 1) \/ i = n
    BY <1>1
  <1>3. n \notin 1..(n - 1) /\ \A i \in 1..(n - 1) : i < n
    BY <1>1
  <1>4. RecordedUses' = RecordedUses \cup
            (IF e.kind \in UseKinds THEN {[grant |-> e.grant, revision |-> n]} ELSE {})
    <2>1. ASSUME NEW u
          PROVE  u \in RecordedUses' <=>
                    \/ u \in RecordedUses
                    \/ e.kind \in UseKinds /\ u = [grant |-> e.grant, revision |-> n]
      <3>1. u \in RecordedUses' <=>
               \E i \in 1..n : /\ registry'.audit[i].kind \in UseKinds
                               /\ u = [grant |-> registry'.audit[i].grant, revision |-> i]
        BY <1>1 DEF RecordedUses, UseKinds
      <3>2. u \in RecordedUses <=>
               \E i \in 1..(n - 1) : /\ registry.audit[i].kind \in UseKinds
                                     /\ u = [grant |-> registry.audit[i].grant, revision |-> i]
        BY <1>1 DEF RecordedUses
      <3> QED
        BY <1>1, <1>2, <3>1, <3>2
    <2> QED
      BY <2>1
  <1>5. \A u \in RecordedUses : u.revision < n
    BY <1>1, <1>3 DEF RecordedUses
  <1> QED
    BY <1>1, <1>4, <1>5 DEF n

LEMMA CommitRefines ==
    ASSUME Inductive, [Next]_vars, registry' # registry
    PROVE  Abstract!AbsNext \/ UNCHANGED <<GrantStatus, RecordedUses, accepted>>
  <1>1. PICK p \in Procs :
            /\ pc[p] = "replace" /\ Bounded(job[p], registry) /\ HasRoom(registry)
            /\ registry' = Proposed(job[p], registry) /\ accepted' = accepted
    BY CommitOnly
  <1> DEFINE j == job[p]
             g == job[p].grant
             e == [kind |-> Kind(j), grant |-> g]
             n == Len(registry.audit) + 1
             old == registry.rows[g].status
             new == registry'.rows[g].status
  <1>2. j \in Job /\ j.op # "none" /\ g \in Grants /\ j.repo \in Repos
    BY <1>1, CallKept
  <1>3. /\ registry \in Registry /\ registry' \in Registry
        /\ registry'.audit = Append(registry.audit, e)
        /\ \A h \in Grants : h # g => registry'.rows[h] = registry.rows[h]
    BY <1>1, <1>2, ProposedTyped DEF Inductive, TypeOK
  <1>4. e \in Event
    BY <1>2 DEF Event, Kinds, Kind, UseKind
  <1>5. /\ RecordedUses' = RecordedUses \cup
              (IF e.kind \in UseKinds THEN {[grant |-> e.grant, revision |-> n]} ELSE {})
        /\ \A u \in RecordedUses : u.revision < n
        /\ n \in 1..MaxAudit
    BY <1>1, <1>3, <1>4, CommitUses, AuthorityAssumption DEF HasRoom
  <1>6. e.kind = Kind(j) /\ e.grant = g
    OBVIOUS
  <1>7. <<old, new>> \in CASE j.op = "create" -> {<<"NONE", "ACTIVE">>}
                           [] j.op = "revoke" -> {<<"ACTIVE", "REVOKED">>}
                           [] j.op = "use" /\ g \in OneShot -> {<<"ACTIVE", "CONSUMED">>}
                           [] j.op = "use" /\ g \notin OneShot -> {<<"ACTIVE", "ACTIVE">>}
                           [] OTHER -> {<<s, s>> : s \in Statuses \ {"NONE"}}
    BY <1>1 DEF Bounded
  <1> HIDE DEF e, n, old, new
  <1>8. /\ GrantStatus[g] = old
        /\ GrantStatus' = [GrantStatus EXCEPT ![g] = new]
    <2>1. \A h \in Grants : registry'.rows[h].status = IF h = g THEN new ELSE registry.rows[h].status
      BY <1>2, <1>3 DEF new
    <2> QED
      BY <1>2, <2>1 DEF GrantStatus, old
  <1>9. CASE j.op = "create"
    <2>1. old = "NONE" /\ new = "ACTIVE" /\ Kind(j) \notin UseKinds
      BY <1>7, <1>9 DEF Kind, UseKinds
    <2> QED
      BY <1>1, <1>2, <1>5, <1>6, <1>8, <2>1 DEF Abstract!AbsNext, Abstract!Create
  <1>10. CASE j.op = "revoke"
    <2>1. old = "ACTIVE" /\ new = "REVOKED" /\ Kind(j) \notin UseKinds
      BY <1>7, <1>10 DEF Kind, UseKinds
    <2> QED
      BY <1>1, <1>2, <1>5, <1>6, <1>8, <2>1 DEF Abstract!AbsNext, Abstract!Revoke
  <1>11. CASE j.op = "use"
    <2>1. /\ old = "ACTIVE" /\ new = (IF g \in OneShot THEN "CONSUMED" ELSE old)
          /\ Kind(j) \in UseKinds
      BY <1>7, <1>11 DEF Kind, UseKind, UseKinds
    <2>2. Abstract!Use(g, n)
      BY <1>1, <1>2, <1>5, <1>6, <1>8, <2>1 DEF Abstract!Use
    <2> QED
      BY <1>2, <1>5, <2>2 DEF Abstract!AbsNext
  <1>12. CASE j.op = "reject"
    <2>1. old = new /\ Kind(j) \notin UseKinds
      BY <1>7, <1>12 DEF Kind, UseKinds
    <2>2. [GrantStatus EXCEPT ![g] = old] = GrantStatus
      BY <1>8 DEF GrantStatus
    <2>3. GrantStatus' = GrantStatus
      BY <1>8, <2>1, <2>2
    <2>4. RecordedUses' = RecordedUses
      BY <1>5, <1>6, <2>1
    <2> QED
      BY <1>1, <2>3, <2>4
  <1> QED
    BY <1>2, <1>9, <1>10, <1>11, <1>12 DEF Job

\* An answer names a recorded use nobody was told of.
LEMMA AnswerRefines ==
    ASSUME Inductive, [Next]_vars, accepted' # accepted
    PROVE  Abstract!AbsNext
  <1>1. \E p \in Procs : Release(p)
    BY ZenonT(60) DEF Next, vars, context, BeginCreate, BeginRevoke, BeginUse, BeginOnGrant, Step, Enter,
           EnterFails, Locate, LocateRefused, Recheck, RecheckRefused, TakeLock, LockBusy, Apply,
           ApplyRefused, Replace, ReplaceRefused, Acknowledge, CommitUncertain, Abort, Fails,
           LocateFails, LockFails, PersistFails, CommitFails, ReleaseFails, Crash, Govern, Expire,
           RecoverStateLock
  <1>2. PICK p \in Procs : Release(p)
    BY <1>1
  <1> DEFINE n == Len(job[p].read.audit) + 1
             u == [grant |-> job[p].grant, revision |-> n]
  <1>3. /\ pc[p] = "release" /\ job[p].op = "use" /\ registry' = registry
        /\ accepted' = accepted \cup {[grant |-> job[p].grant, revision |-> n, by |-> p]}
    BY <1>2 DEF Release, Answer
  <1>4. /\ job[p] \in Job /\ job[p].grant \in Grants /\ job[p].repo \in Repos
    BY <1>3, CallKept
  <1>5. /\ registry = Proposed(job[p], job[p].read) /\ job[p].read \in Registry
        /\ \A a \in accepted : a.revision <= Len(job[p].read.audit)
    BY <1>3, <1>4 DEF Inductive, Local, Job
  <1>6. n \in Nat /\ \A a \in accepted : a.revision # n
    BY <1>5 DEF Registry, Inductive, TypeOK
  <1>7. n \in DOMAIN registry.audit /\ registry.audit[n] = [kind |-> UseKind(job[p].grant), grant |-> job[p].grant]
    BY <1>3, <1>4, <1>5, ProposedTyped DEF Registry, Kind
  <1>8. u \in RecordedUses
    <2>1. registry.audit[n].kind \in UseKinds /\ registry.audit[n].grant = job[p].grant
      BY <1>7 DEF UseKind, UseKinds
    <2> QED
      BY <1>7, <2>1 DEF RecordedUses
  <1>9. u.grant = job[p].grant /\ u.revision = n
    OBVIOUS
  <1>10. UNCHANGED <<GrantStatus, RecordedUses>>
    BY <1>3 DEF GrantStatus, RecordedUses
  <1> HIDE DEF u, n
  <1>11. Abstract!Accept(u, p)
    BY <1>3, <1>6, <1>8, <1>9, <1>10 DEF Abstract!Accept
  <1> QED
    BY <1>8, <1>11 DEF Abstract!AbsNext

\* Locks, copies, files and failures behave as single steps on the grants.
THEOREM RegistryRefines == Spec => RefinesAbstract
  <1>1. Init => Abstract!AbsInit
    <2> SUFFICES ASSUME Init PROVE Abstract!AbsInit
      OBVIOUS
    <2>1. GrantStatus = [g \in Grants |-> "NONE"]
      BY DEF Init, GrantStatus, EmptyRegistry, NoRow
    <2>2. DOMAIN registry.audit = {}
      BY DEF Init, EmptyRegistry
    <2>3. RecordedUses = {}
      BY <2>2 DEF RecordedUses
    <2> QED
      BY <2>1, <2>3 DEF Init, Abstract!AbsInit
  <1>2. Inductive /\ [Next]_vars => [Abstract!AbsNext]_(Abstract!avars)
    <2> SUFFICES ASSUME Inductive, [Next]_vars
                 PROVE  [Abstract!AbsNext]_(Abstract!avars)
      OBVIOUS
    <2>1. CASE registry' # registry
      BY <2>1, CommitRefines DEF Abstract!avars
    <2>2. CASE accepted' # accepted
      BY <2>2, AnswerRefines
    <2>3. CASE registry' = registry /\ accepted' = accepted
      BY <2>3 DEF Abstract!avars, GrantStatus, RecordedUses
    <2> QED
      BY <2>1, <2>2, <2>3
  <1> QED
    BY <1>1, <1>2, RegistryInvariant, PTL DEF Spec, RefinesAbstract, Abstract!AbsSpec

=============================================================================
