-------------------------- MODULE RuntimeGuard_proofs --------------------------
(***************************************************************************)
(* The guard and its verification, for every working tree, event, request,  *)
(* rule and number of commands: the types, one contract behind every        *)
(* allowed change, and one moment behind every verified grant.              *)
(***************************************************************************)
EXTENDS RuntimeGuard, Lifecycle_proofs

-----------------------------------------------------------------------------
(* The lifecycle beneath.                                                   *)

\* A hook starts a verification, takes its answer, or leaves it alone.
LEMMA HookObserves ==
    ASSUME Hook
    PROVE  /\ UNCHANGED environment
           /\ \/ obs' = obs
              \/ obs' = NoObservation
              \/ \E fact \in Requests : obs' = verifyGrant(fact)
  <1>1. ASSUME NEW operations, NEW edit, Project(operations, edit)
        PROVE  UNCHANGED environment /\ obs' = obs
    BY <1>1 DEF Project
  <1>2. ReadState \/ CheckReadsState \/ CheckDecides \/ ResolveContract \/ HookThrows
          => UNCHANGED environment /\ obs' = obs
    BY DEF ReadState, CheckReadsState, CheckDecides, ResolveContract, HookThrows
  <1>3. ReadEvent \/ ProjectNext => UNCHANGED environment /\ obs' = obs
    BY <1>1 DEF ReadEvent, ProjectNext
  <1>4. ReadReference \/ Verified =>
          /\ UNCHANGED environment
          /\ \/ obs' = obs
             \/ obs' = NoObservation
             \/ \E fact \in Requests : obs' = verifyGrant(fact)
    BY DEF ReadReference, Verified
  <1> QED
    BY <1>2, <1>3, <1>4 DEF Hook

LEMMA GuardStepIsLifecycle ==
    ASSUME GuardNext
    PROVE  [Next]_vars
  <1>1. Hook => UNCHANGED vars
    BY HookObserves DEF environment
  <1> QED
    BY <1>1 DEF GuardNext, LifecycleStep

LEMMA LifecycleKept == GuardSpec => [](Inductive /\ Kept)
  <1>1. GuardInit => Inductive /\ Kept
    BY InitInductive, InitKept DEF GuardInit
  <1>2. Inductive /\ Kept /\ [GuardNext]_guardVars => Inductive' /\ Kept'
    <2>1. GuardNext => [Next]_vars
      BY GuardStepIsLifecycle
    <2>2. UNCHANGED guardVars => UNCHANGED vars
      BY DEF guardVars
    <2> QED
      BY <2>1, <2>2, NextKeeps, StutterKeeps, KeptStep
  <1> QED
    BY <1>1, <1>2, PTL DEF GuardSpec

-----------------------------------------------------------------------------
(* The types of what is observed.                                           *)

RegistryFile == [grant : Works \cup {NoGrant}, lifecycle : {"NONE", "ACTIVE", "TERMINAL"},
                 revision : 0..MaxRegistryWrites]
Views == [state : StateFile \cup {NotRead},
          contract : ContractFile \cup {NotRead},
          registry : RegistryFile \cup {NotRead}]
Observation == [step : 0..23, request : Requests \cup {NotRead}, seen : Views,
                fits : BOOLEAN, settled : BOOLEAN, answer : {"none", "VERIFIED", "REJECTED"}]

WorldTyped ==
    /\ disk \in [Paths -> DiskEntries]
    /\ registry \in RegistryFile
    /\ registryLock \in {Free, "local", "foreign"}
    /\ edits \in 0..MaxEdits

ObservationTyped ==
    /\ obs \in Observation
    /\ obs.step # 0 => obs.request \in Requests /\ obs.answer = "none"

LEMMA ScriptIs ==
    /\ Len(Script) = 23
    /\ Script[1] = Absent("state") /\ Script[2] = Absent("registry")
    /\ Script[3] = Pin("state") /\ Script[4] = Absent("contract") /\ Script[5] = Pin("contract")
    /\ Script[6] = Absent("registry") /\ Script[7] = Pin("registry") /\ Script[8] = Judge
    /\ Script[12] = Validate("state") /\ Script[14] = Validate("registry")
    /\ \A n \in {1, 2, 4, 6} \cup 9..23 : Script[n].look \notin {"pin", "judge"}
  BY DEF Script, Locks, Validations, Absent, Validate, Pin, Judge

LEMMA NoObservationTyped ==
    /\ NoObservation \in Observation
    /\ NoObservation.step = 0 /\ NoObservation.answer = "none"
  BY DEF NoObservation, Nothing, Observation, Views

LEMMA WorldTypedInit == GuardInit => WorldTyped /\ ObservationTyped
  <1> SUFFICES ASSUME GuardInit PROVE WorldTyped /\ ObservationTyped
    OBVIOUS
  <1>1. disk \in [Paths -> DiskEntries]
    BY ObservationAssumption DEF GuardInit, ObservationInit
  <1>2. registry \in RegistryFile
    BY ObservationAssumption DEF GuardInit, ObservationInit, RegistryFile
  <1> QED
    BY <1>1, <1>2, NoObservationTyped, ObservationAssumption
       DEF GuardInit, ObservationInit, WorldTyped, ObservationTyped

\* The registry's transactions and the user keep the types.
LEMMA WorldStaysTyped ==
    ASSUME Inductive, Kept, WorldTyped, World
    PROVE  WorldTyped'
  <1>1. ASSUME NEW who \in {"local", "foreign"}, RegistryBegin(who)
        PROVE  WorldTyped'
    BY <1>1 DEF RegistryBegin, WorldTyped
  <1>2. CASE RegistryWrite
    <2>1. registry.revision + 1 \in 0..MaxRegistryWrites
      BY <1>2, ObservationAssumption DEF RegistryWrite, WorldTyped, RegistryFile
    <2>2. registry' \in RegistryFile
      <3>1. CASE RegistryCreate
        <4>1. /\ state.active \in Contracts
              /\ contract[state.active].status = "active"
          BY <3>1 DEF RegistryCreate, CoherentWork, Inductive, TypeOK, StateFile, ContractRef
        <4>2. contract[state.active].budget \in Budgets
          BY <4>1 DEF Kept, FilesKept, Scoped
        <4> QED
          BY <2>1, <3>1, <4>1, <4>2 DEF RegistryCreate, Work, RegistryFile, Works
      <3>2. CASE RegistryEnd
        BY <2>1, <3>2 DEF RegistryEnd, RegistryFile, WorldTyped
      <3>3. CASE RegistryForeign
        BY <2>1, <3>3 DEF RegistryForeign, RegistryFile, WorldTyped
      <3> QED
        BY <1>2, <3>1, <3>2, <3>3 DEF RegistryWrite
    <2> QED
      BY <1>2, <2>2 DEF RegistryWrite, WorldTyped
  <1>3. CASE RegistryRelease
    BY <1>3 DEF RegistryRelease, WorldTyped
  <1>4. ASSUME NEW p \in UserPaths, NEW kind \in {"file", "missing"},
               Edit(p, [kind |-> kind, place |-> NoPath])
        PROVE  WorldTyped'
    <2>1. p \in Paths /\ [kind |-> kind, place |-> NoPath] \in DiskEntries
      BY ObservationAssumption DEF DiskEntries
    <2> QED
      BY ObservationAssumption, <1>4, <2>1 DEF Edit, WorldTyped
  <1> QED
    BY <1>1, <1>2, <1>3, <1>4 DEF World

-----------------------------------------------------------------------------
(* A verification that goes on has seen what is there, or can tell: every    *)
(* change of the state while no record is pending appends one, and every     *)
(* change of the registry raises its revision.                               *)

Moved == Len(state.audits) > Len(obs.seen.state.audits)
Rewritten == registry.revision > obs.seen.registry.revision

StateSeen ==
    /\ obs.seen.state \in StateFile /\ PendingEvents(obs.seen.state) = {}
    /\ state = obs.seen.state \/ Moved
ContractSeen ==
    /\ state = obs.seen.state => obs.seen.contract = FileNow("contract")
    /\ Active # NoContract => obs.seen.contract.status = "active"
RegistrySeen ==
    /\ obs.seen.registry \in RegistryFile
    /\ registry = obs.seen.registry \/ Rewritten
Judged ==
    obs.fits => /\ Active # NoContract
                /\ obs.seen.registry.lifecycle = "ACTIVE"
                /\ obs.seen.registry.grant = Work(obs.seen.state, obs.seen.contract)

\* By the number of the next look.
Steady ==
    /\ obs.step >= 4 => StateSeen
    /\ obs.step >= 6 => ContractSeen
    /\ obs.step >= 8 => RegistrySeen
    /\ obs.step >= 9 => Judged /\ (obs.settled \/ Moved \/ Rewritten)
    /\ obs.step >= 13 => obs.settled \/ Rewritten
    /\ obs.step >= 15 => obs.settled
    /\ VerifiedWasSettled

\* The registry changes with its revision.
LEMMA RegistryRewrites ==
    ASSUME WorldTyped, World
    PROVE  registry' = registry \/ registry'.revision > registry.revision
  <1>1. CASE RegistryWrite
    <2>1. registry.revision \in Int /\ registry \in RegistryFile
      BY DEF WorldTyped, RegistryFile
    <2>2. RegistryCreate => registry'.revision = registry.revision + 1
      BY DEF RegistryCreate
    <2>3. RegistryEnd => registry'.revision = registry.revision + 1
      BY <2>1 DEF RegistryEnd, RegistryFile
    <2>4. RegistryForeign => registry'.revision = registry.revision + 1
      BY <2>1 DEF RegistryForeign, RegistryFile
    <2> QED
      BY <1>1, <2>1, <2>2, <2>3, <2>4 DEF RegistryWrite
  <1> QED
    BY <1>1 DEF World, RegistryBegin, RegistryRelease, Edit

\* Whatever moves beneath a verification, what it knows stays true.
LEMMA BeneathStaysSteady ==
    ASSUME Inductive, Kept, [Next]_vars, Inductive', WorldTyped, WorldTyped', ObservationTyped,
           Steady, obs' = obs, registry' = registry \/ registry'.revision > registry.revision
    PROVE  Steady'
  <1>1. /\ Len(state.audits) \in Nat /\ Len(state'.audits) \in Nat
        /\ Len(state'.audits) >= Len(state.audits)
    BY HistoryStep DEF Inductive, TypeOK, StateFile
  <1>2. registry.revision \in Int /\ registry'.revision \in Int
    BY DEF WorldTyped, RegistryFile
  <1>3. obs.step \in Int
    BY DEF ObservationTyped, Observation
  <1>4. ASSUME StateSeen
        PROVE  StateSeen' /\ (Moved => Moved') /\ (state' = obs.seen.state => UNCHANGED <<state, contract>>)
    <2>1. Len(obs.seen.state.audits) \in Nat
      BY <1>4 DEF StateSeen, StateFile
    <2>2. Moved => Moved'
      BY <1>1, <2>1 DEF Moved
    <2>3. CASE Moved
      BY <1>1, <1>4, <2>1, <2>2, <2>3 DEF StateSeen, Moved
    <2>4. CASE state = obs.seen.state
      <3>1. UNCHANGED <<state, contract>> \/ Len(state'.audits) > Len(state.audits)
        BY <1>4, <2>4, SettledStays DEF StateSeen
      <3> QED
        BY <1>1, <1>4, <2>1, <2>2, <2>4, <3>1 DEF StateSeen, Moved
    <2> QED
      BY <1>4, <2>3, <2>4 DEF StateSeen
  <1>5. ASSUME StateSeen, ContractSeen
        PROVE  ContractSeen'
    BY <1>4, <1>5 DEF ContractSeen, FileNow, Active
  <1>6. ASSUME RegistrySeen
        PROVE  RegistrySeen' /\ (Rewritten => Rewritten')
    <2>1. obs.seen.registry.revision \in Int
      BY <1>6 DEF RegistrySeen, RegistryFile
    <2> QED
      BY <1>2, <1>6, <2>1 DEF RegistrySeen, Rewritten
  <1>7. (Judged => Judged') /\ VerifiedWasSettled'
    BY DEF Judged, Active, Steady, VerifiedWasSettled
  <1>8. /\ obs.step >= 6 => obs.step >= 4 /\ (obs.step >= 8 => obs.step >= 6)
        /\ obs.step >= 9 => obs.step >= 8 /\ obs.step >= 4
        /\ obs.step >= 13 => obs.step >= 9
    BY <1>3
  <1> QED
    BY <1>3, <1>4, <1>5, <1>6, <1>7, <1>8 DEF Steady

-----------------------------------------------------------------------------
(* The looks of a verification.                                             *)

\* Looks that neither take in a file nor judge.
Plain == {1, 2, 4, 6} \cup 9..22

\* What one look makes of the verification.
LEMMA LookSteps ==
    ASSUME ObservationTyped, Observe
    PROVE  LET n == obs.step
               next == [obs EXCEPT !.step = n + 1]
           IN  \/ obs' = Rejected
               \/ n = 3 /\ Readable("state") /\ obs' = [next EXCEPT !.seen["state"] = state]
               \/ n = 5 /\ Readable("contract")
                        /\ obs' = [next EXCEPT !.seen["contract"] = FileNow("contract")]
               \/ n = 7 /\ obs' = [next EXCEPT !.seen["registry"] = registry]
               \/ n = 8 /\ \E late \in BOOLEAN :
                      obs' = [next EXCEPT !.fits = ~authorityUseFails(obs.seen, obs.request, late),
                                          !.settled = AsSeen]
               \/ n = 23 /\ obs' = Answer(obs)
               \/ /\ n \in Plain /\ obs' = next
                  /\ n = 12 => Unchanged("state")
                  /\ n = 14 => Unchanged("registry")
  <1> DEFINE n == obs.step
  <1>1. n \in 1..23 /\ obs \in Observation
    BY DEF ObservationTyped, Observation, Observe
  <1>2. PICK late \in BOOLEAN :
            obs' = IF ~LookSucceeds(Script[n]) THEN Rejected
                   ELSE IF n = 23 THEN Answer(Look(Script[n], late))
                   ELSE [Look(Script[n], late) EXCEPT !.step = @ + 1]
    BY ScriptIs DEF Observe
  <1>3. CASE n \in Plain \cup {23}
    <2>1. Script[n].look \notin {"pin", "judge"}
      BY <1>3, ScriptIs DEF Plain
    <2>2. Look(Script[n], late) = obs
      BY <2>1 DEF Look
    <2>3. n = 12 /\ LookSucceeds(Script[n]) => Unchanged("state")
      <3>1. LookSucceeds(Validate("state")) => Unchanged("state")
        BY DEF LookSucceeds, Validate
      <3> QED
        BY <3>1, ScriptIs
    <2>4. n = 14 /\ LookSucceeds(Script[n]) => Unchanged("registry")
      <3>1. LookSucceeds(Validate("registry")) => Unchanged("registry")
        BY DEF LookSucceeds, Validate
      <3> QED
        BY <3>1, ScriptIs
    <2>5. 23 \notin Plain
      BY DEF Plain
    <2> QED
      BY <1>2, <1>3, <2>2, <2>3, <2>4, <2>5
  <1>4. CASE n = 3
    <2>1. Script[n] = Pin("state")
      BY <1>4, ScriptIs
    <2>2. /\ LookSucceeds(Script[n]) => Readable("state")
          /\ Look(Script[n], late) = [obs EXCEPT !.seen["state"] = state]
      BY <2>1 DEF LookSucceeds, Look, Pin, FileNow
    <2>3. [[obs EXCEPT !.seen["state"] = state] EXCEPT !.step = @ + 1]
             = [[obs EXCEPT !.step = n + 1] EXCEPT !.seen["state"] = state]
      BY <1>1 DEF Observation
    <2> QED
      BY <1>2, <1>4, <2>2, <2>3
  <1>5. CASE n = 5
    <2>1. Script[n] = Pin("contract")
      BY <1>5, ScriptIs
    <2> DEFINE file == FileNow("contract")
    <2>2. /\ LookSucceeds(Script[n]) => Readable("contract")
          /\ Look(Script[n], late) = [obs EXCEPT !.seen["contract"] = file]
      BY <2>1 DEF LookSucceeds, Look, Pin
    <2> HIDE DEF file
    <2>3. [[obs EXCEPT !.seen["contract"] = file] EXCEPT !.step = @ + 1]
             = [[obs EXCEPT !.step = n + 1] EXCEPT !.seen["contract"] = file]
      BY <1>1 DEF Observation
    <2> QED
      BY <1>2, <1>5, <2>2, <2>3 DEF file
  <1>6. CASE n = 7
    <2>1. Script[n] = Pin("registry")
      BY <1>6, ScriptIs
    <2>2. Look(Script[n], late) = [obs EXCEPT !.seen["registry"] = registry]
      BY <2>1 DEF Look, Pin, FileNow
    <2>3. [[obs EXCEPT !.seen["registry"] = registry] EXCEPT !.step = @ + 1]
             = [[obs EXCEPT !.step = n + 1] EXCEPT !.seen["registry"] = registry]
      BY <1>1 DEF Observation
    <2> QED
      BY <1>2, <1>6, <2>2, <2>3
  <1>7. CASE n = 8
    <2> DEFINE f == ~authorityUseFails(obs.seen, obs.request, late)
               a == AsSeen
    <2>1. Script[n] = Judge
      BY <1>7, ScriptIs
    <2>2. Look(Script[n], late) = [obs EXCEPT !.fits = f, !.settled = a]
      BY <2>1 DEF Look, Judge
    <2> HIDE DEF f, a
    <2>3. [[obs EXCEPT !.fits = f, !.settled = a] EXCEPT !.step = @ + 1]
             = [[obs EXCEPT !.step = n + 1] EXCEPT !.fits = f, !.settled = a]
      BY <1>1 DEF Observation
    <2>4. obs' = Rejected \/ obs' = [[obs EXCEPT !.step = n + 1] EXCEPT !.fits = f, !.settled = a]
      BY <1>2, <1>7, <2>2, <2>3
    <2> QED
      BY <1>7, <2>4 DEF f, a
  <1>8. n \in Plain \cup {23, 3, 5, 7, 8}
    BY <1>1 DEF Plain
  <1> QED
    BY <1>3, <1>4, <1>5, <1>6, <1>7, <1>8

\* A look leaves the repository alone and makes the verification know more.
LEMMA LooksStaySteady ==
    ASSUME Inductive, WorldTyped, ObservationTyped, Steady, Observe,
           UNCHANGED <<state, contract, registry>>
    PROVE  Steady' /\ ObservationTyped'
  <1> DEFINE n == obs.step
             next == [obs EXCEPT !.step = n + 1]
  <1>1. /\ n \in 0..23 /\ n # 0 /\ obs \in Observation
        /\ state \in StateFile /\ registry \in RegistryFile
        /\ obs.request \in Requests /\ obs.answer = "none"
    BY DEF ObservationTyped, Observation, Observe, Inductive, TypeOK, WorldTyped
  <1>2. Rejected \in Observation /\ Rejected.step = 0 /\ Rejected.answer = "REJECTED"
    BY NoObservationTyped DEF Rejected, Observation
  <1> DEFINE m == n + 1
  <1>0. n # 23 => m \in 0..23 /\ next \in Observation
    BY <1>1 DEF Observation
  <1>3. CASE obs' = Rejected
    BY <1>2, <1>3 DEF Steady, VerifiedWasSettled, ObservationTyped
  <1>4. ASSUME n \in Plain, obs' = next, n = 12 => Unchanged("state"),
               n = 14 => Unchanged("registry")
        PROVE  Steady' /\ ObservationTyped'
    <2>1. /\ obs' \in Observation /\ obs'.step = n + 1 /\ obs'.seen = obs.seen
          /\ obs'.fits = obs.fits /\ obs'.settled = obs.settled
          /\ obs'.answer = obs.answer /\ obs'.request = obs.request
      BY <1>1, <1>4 DEF Observation, Plain
    <2>2. /\ (StateSeen => StateSeen') /\ (ContractSeen => ContractSeen')
          /\ (RegistrySeen => RegistrySeen') /\ (Judged => Judged')
          /\ (Moved <=> Moved') /\ (Rewritten <=> Rewritten')
      BY <2>1 DEF StateSeen, ContractSeen, RegistrySeen, Judged, Moved, Rewritten, FileNow, Active
    <2>3. n = 12 => ~Moved
      <3>1. n = 12 => obs.seen["state"] = state
        BY <1>4 DEF Unchanged, FileNow
      <3>2. Len(state.audits) \in Nat
        BY <1>1 DEF StateFile
      <3> QED
        BY <3>1, <3>2 DEF Moved
    <2>4. n = 14 => ~Rewritten
      <3>1. n = 14 => obs.seen["registry"] = registry
        BY <1>4 DEF Unchanged, FileNow
      <3>2. registry.revision \in Int
        BY <1>1 DEF RegistryFile
      <3> QED
        BY <3>1, <3>2 DEF Rewritten
    <2>5. VerifiedWasSettled'
      BY <1>1, <2>1 DEF VerifiedWasSettled
    <2>6. ObservationTyped'
      BY <1>1, <2>1 DEF ObservationTyped
    <2> QED
      BY <1>1, <1>4, <2>1, <2>2, <2>3, <2>4, <2>5, <2>6 DEF Steady, Plain
  <1>5. CASE n = 3 /\ Readable("state") /\ obs' = [next EXCEPT !.seen["state"] = state]
    <2>0. obs' \in Observation
      <3>0. next.seen \in Views
        BY <1>5, <1>0 DEF Observation
      <3>1. [next.seen EXCEPT !["state"] = state] \in Views
        <4> HIDE DEF next
        <4> QED
          BY <1>1, <3>0 DEF Views
      <3>2. next \in Observation
        BY <1>5, <1>0
      <3>3. obs' = [next EXCEPT !.seen["state"] = state]
        BY <1>5
      <3> HIDE DEF next
      <3> QED
        BY <3>1, <3>2, <3>3 DEF Observation
    <2>1. /\ obs'.step = 4 /\ obs'.seen.state = state
          /\ obs'.answer = obs.answer /\ obs'.request = obs.request
      BY <1>1, <1>5 DEF Observation, Views
    <2>2. PendingEvents(state) = {}
      BY <1>5 DEF Readable, HasPending
    <2> QED
      BY <1>1, <2>0, <2>1, <2>2 DEF Steady, StateSeen, VerifiedWasSettled, ObservationTyped
  <1>6. CASE n = 5 /\ Readable("contract") /\ obs' = [next EXCEPT !.seen["contract"] = FileNow("contract")]
    <2> DEFINE file == FileNow("contract")
    <2>1. StateSeen
      BY <1>6 DEF Steady
    <2>2. Active \in ContractRef
      BY <2>1 DEF StateSeen, StateFile, Active
    <2>3. file \in ContractFile /\ (Active # NoContract => file.status = "active")
      BY <1>6, <2>2 DEF FileNow, Readable, Inductive, TypeOK, NoFile, ContractFile, BudgetRef,
                        ContractRef
    <2>4. file = IF obs.seen.state.active = NoContract THEN NoFile ELSE contract[obs.seen.state.active]
      BY DEF FileNow, Active
    <2> HIDE DEF file
    <2>0. obs' \in Observation
      <3>0. next.seen \in Views
        BY <1>6, <1>0 DEF Observation
      <3>1. [next.seen EXCEPT !["contract"] = file] \in Views
        <4> HIDE DEF next
        <4> QED
          BY <2>3, <3>0 DEF Views
      <3>2. next \in Observation
        BY <1>6, <1>0
      <3>3. obs' = [next EXCEPT !.seen["contract"] = file]
        BY <1>6 DEF file
      <3> HIDE DEF next
      <3> QED
        BY <3>1, <3>2, <3>3 DEF Observation
    <2>5. /\ obs'.step = 6 /\ obs'.seen.state = obs.seen.state
          /\ obs'.seen.contract = file /\ obs'.answer = obs.answer /\ obs'.request = obs.request
      BY <1>1, <1>6, <2>3 DEF Observation, Views, file
    <2>6. StateSeen'
      BY <2>1, <2>5 DEF StateSeen, Moved
    <2>7. Active' = Active /\ FileNow("contract")' = file
      BY <2>4, <2>5 DEF Active, FileNow
    <2>8. ContractSeen'
      BY <2>3, <2>5, <2>7 DEF ContractSeen
    <2> QED
      BY <1>1, <2>0, <2>5, <2>6, <2>8 DEF Steady, VerifiedWasSettled, ObservationTyped
  <1>7. CASE n = 7 /\ obs' = [next EXCEPT !.seen["registry"] = registry]
    <2>0. obs' \in Observation
      <3>0. next.seen \in Views
        BY <1>7, <1>0 DEF Observation
      <3>1. [next.seen EXCEPT !["registry"] = registry] \in Views
        <4> HIDE DEF next
        <4> QED
          BY <1>1, <3>0 DEF Views
      <3>2. next \in Observation
        BY <1>7, <1>0
      <3>3. obs' = [next EXCEPT !.seen["registry"] = registry]
        BY <1>7
      <3> HIDE DEF next
      <3> QED
        BY <3>1, <3>2, <3>3 DEF Observation
    <2>1. /\ obs'.step = 8 /\ obs'.seen.state = obs.seen.state
          /\ obs'.seen.contract = obs.seen.contract /\ obs'.seen.registry = registry
          /\ obs'.answer = obs.answer /\ obs'.request = obs.request
      BY <1>1, <1>7 DEF Observation, Views
    <2>2. StateSeen' /\ ContractSeen'
      BY <1>7, <2>1 DEF Steady, StateSeen, ContractSeen, Moved, FileNow, Active
    <2>3. RegistrySeen'
      BY <1>1, <2>1 DEF RegistrySeen
    <2> QED
      BY <1>1, <2>0, <2>1, <2>2, <2>3 DEF Steady, VerifiedWasSettled, ObservationTyped
  <1>8. ASSUME n = 8, NEW late \in BOOLEAN,
               obs' = [next EXCEPT !.fits = ~authorityUseFails(obs.seen, obs.request, late),
                                   !.settled = AsSeen]
        PROVE  Steady' /\ ObservationTyped'
    <2> DEFINE f == ~authorityUseFails(obs.seen, obs.request, late)
               a == AsSeen
    <2>1. f \in BOOLEAN /\ a \in BOOLEAN
      BY DEF AsSeen
    <2>2. StateSeen /\ ContractSeen /\ RegistrySeen
      BY <1>8 DEF Steady
    <2>3. a \/ Moved \/ Rewritten
      <3>1. state = obs.seen.state /\ registry = obs.seen.registry => a
        BY <2>2 DEF AsSeen, ContractSeen, FileNow
      <3> QED
        BY <2>2, <3>1 DEF StateSeen, RegistrySeen
    <2>4. f => /\ Active # NoContract /\ obs.seen.registry.lifecycle = "ACTIVE"
               /\ obs.seen.registry.grant = Work(obs.seen.state, obs.seen.contract)
      BY DEF authorityUseFails, Active
    <2> HIDE DEF f, a
    <2>0. obs' \in Observation
      <3>1. [next EXCEPT !.fits = f, !.settled = a] \in Observation
        <4>1. next \in Observation
          BY <1>8, <1>0
        <4> HIDE DEF next
        <4> QED
          BY <2>1, <4>1, Zenon DEF Observation
      <3> QED
        BY <1>8, <3>1 DEF f, a
    <2>5. /\ obs'.step = 9 /\ obs'.seen = obs.seen
          /\ obs'.fits = f /\ obs'.settled = a
          /\ obs'.answer = obs.answer /\ obs'.request = obs.request
      BY <1>1, <1>8, <2>1 DEF Observation, f, a
    <2>6. StateSeen' /\ ContractSeen' /\ RegistrySeen' /\ (Moved <=> Moved') /\ (Rewritten <=> Rewritten')
      BY <2>2, <2>5 DEF StateSeen, ContractSeen, RegistrySeen, Moved, Rewritten, FileNow, Active
    <2>7. Judged'
      BY <2>4, <2>5 DEF Judged, Active
    <2> QED
      BY <1>1, <2>0, <2>3, <2>5, <2>6, <2>7 DEF Steady, VerifiedWasSettled, ObservationTyped
  <1>9. CASE n = 23 /\ obs' = Answer(obs)
    <2> DEFINE said == IF obs.fits THEN "VERIFIED" ELSE "REJECTED"
    <2>0. obs' \in Observation
      <3>1. said \in {"none", "VERIFIED", "REJECTED"} /\ obs' = [obs EXCEPT !.step = 0, !.answer = said]
        BY <1>9 DEF Answer
      <3>2. 0 \in 0..23
        OBVIOUS
      <3> HIDE DEF said
      <3> QED
        BY <1>1, <3>1, <3>2 DEF Observation
    <2>1. /\ obs'.step = 0 /\ obs'.seen = obs.seen
          /\ obs'.settled = obs.settled /\ (obs'.answer = "VERIFIED" => obs.fits)
      BY <1>1, <1>9 DEF Observation, Answer
    <2>2. obs.settled /\ ContractSeen /\ Judged
      BY <1>9 DEF Steady
    <2>3. VerifiedWasSettled'
      BY <2>1, <2>2 DEF VerifiedWasSettled, ContractSeen, Judged
    <2> QED
      BY <2>0, <2>1, <2>3 DEF Steady, ObservationTyped
  <1> QED
    BY <1>3, <1>4, <1>5, <1>6, <1>7, <1>8, <1>9, LookSteps

LEMMA VerificationStep ==
    ASSUME Inductive, Kept, Inductive', WorldTyped, ObservationTyped, Steady,
           [GuardNext]_guardVars
    PROVE  WorldTyped' /\ ObservationTyped' /\ Steady'
  <1>1. [Next]_vars
    BY GuardStepIsLifecycle DEF guardVars
  <1>2. ASSUME WorldTyped', obs' = obs,
               registry' = registry \/ registry'.revision > registry.revision
        PROVE  WorldTyped' /\ ObservationTyped' /\ Steady'
    BY <1>1, <1>2, BeneathStaysSteady DEF ObservationTyped
  <1>3. UNCHANGED worldVars => WorldTyped' /\ registry' = registry
    BY DEF worldVars, WorldTyped
  <1>4. CASE UNCHANGED guardVars \/ (LifecycleStep /\ UNCHANGED <<observationVars, guard>>)
    <2>1. UNCHANGED worldVars /\ obs' = obs
      BY <1>4 DEF guardVars, observationVars, worldVars
    <2> QED
      BY <1>2, <1>3, <2>1
  <1>5. CASE World /\ UNCHANGED <<vars, obs, guard>>
    BY <1>2, <1>5, WorldStaysTyped, RegistryRewrites
  <1>6. CASE Observe /\ UNCHANGED <<vars, guard>>
    <2>1. UNCHANGED worldVars /\ UNCHANGED <<state, contract>>
      BY <1>6 DEF Observe, vars
    <2> QED
      BY <1>3, <1>6, <2>1, LooksStaySteady
  <1>7. CASE Hook
    <2>1. UNCHANGED worldVars /\ UNCHANGED <<state, contract>>
      BY <1>7, HookObserves DEF environment, vars
    <2>2. CASE obs' = obs
      BY <1>2, <1>3, <2>1, <2>2
    <2>3. CASE obs' = NoObservation
      BY <1>3, <2>1, <2>3, NoObservationTyped DEF ObservationTyped, Steady, VerifiedWasSettled
    <2>4. ASSUME NEW fact \in Requests, obs' = verifyGrant(fact)
          PROVE  ObservationTyped' /\ Steady'
      <3>1. 1 \in 0..23
        OBVIOUS
      <3>2. obs' \in Observation /\ obs'.step = 1 /\ obs'.request = fact /\ obs'.answer = "none"
        BY <2>4, <3>1, NoObservationTyped DEF verifyGrant, Observation
      <3> QED
        BY <3>2 DEF ObservationTyped, Steady, VerifiedWasSettled
    <2> QED
      BY <1>3, <1>7, <2>1, <2>2, <2>3, <2>4, HookObserves
  <1> QED
    BY <1>4, <1>5, <1>6, <1>7 DEF GuardNext

LEMMA VerificationInvariant ==
    GuardSpec => [](Inductive /\ Kept /\ WorldTyped /\ ObservationTyped /\ Steady)
  <1>1. GuardInit => WorldTyped /\ ObservationTyped /\ Steady
    BY WorldTypedInit, NoObservationTyped
       DEF GuardInit, ObservationInit, Steady, VerifiedWasSettled
  <1>2. /\ Inductive /\ Kept /\ WorldTyped /\ ObservationTyped /\ Steady
        /\ Inductive' /\ Kept' /\ [GuardNext]_guardVars
        => WorldTyped' /\ ObservationTyped' /\ Steady'
    BY VerificationStep
  <1> QED
    BY <1>1, <1>2, LifecycleKept, PTL DEF GuardSpec

\* A grant is verified only on one moment of the repository, whatever commands,
\* registry transactions and changes of the user run between the looks.
THEOREM VerifiedIsSettled == GuardSpec => []VerifiedWasSettled
  <1>1. Steady => VerifiedWasSettled
    BY DEF Steady
  <1> QED
    BY <1>1, VerificationInvariant, PTL

-----------------------------------------------------------------------------
(* What an allowed change rests on.                                         *)

LEMMA ProjectionAllows ==
    ASSUME NEW c, c.inited, c.intent = "mutate", projectRuntimeDecision(c) = "allow"
    PROVE  ~Blocking(c) /\ ~Asking(c)
  BY DEF projectRuntimeDecision

LEMMA UnderstoodTyped == \A name : toRepoRelativePath(name) \in Paths \cup {NoPath}
  BY DEF toRepoRelativePath

LEMMA NoPathIsNone == NoPath \notin Paths
  BY PolicyAssumption DEF PolicyAssumption

\* What an understood path leads to on disk is among the paths held against the
\* scope.
LEMMA ReachedIsHeld ==
    ASSUME NEW name, NEW p \in Paths, p = toRepoRelativePath(name),
           disk \in [Paths -> DiskEntries], classifyTargetCreation(disk, p).state # "unsafe"
    PROVE  Reached(name) \subseteq TargetPaths(disk, p)
  <1> DEFINE placed == IF disk[p].place = NoPath THEN p ELSE disk[p].place
  <1>1. classifyTargetCreation(disk, p).effective = placed
    BY DEF classifyTargetCreation, Classified
  <1>2. Reached(name) = {p, disk[p].place} \ {NoPath}
    BY NoPathIsNone DEF Reached
  <1> QED
    BY <1>1, <1>2 DEF TargetPaths

LEMMA HeldIsWithin ==
    ASSUME NEW scope, NEW paths, ~isPathDenied(scope, paths), ~isPathNotAllowed(scope, paths),
           buildSensitiveFlags(scope, paths) = {}, paths \cap OwnPaths = {}
    PROVE  \A p \in paths : WithinScope(scope, p)
  <1>1. \A p \in paths : SensitiveAs[p] \subseteq scope.permits
    <2> DEFINE all == UNION {SensitiveAs[p] : p \in paths}
    <2>1. ASSUME NEW p \in paths
          PROVE  SensitiveAs[p] \subseteq all
      <3>1. SensitiveAs[p] \in {SensitiveAs[q] : q \in paths}
        OBVIOUS
      <3> QED
        BY <3>1, Zenon
    <2>2. all \ scope.permits = {}
      BY Zenon DEF buildSensitiveFlags
    <2> QED
      <3> HIDE DEF all
      <3> QED
        BY <2>1, <2>2
  <1> QED
    BY <1>1 DEF WithinScope, PathAllowed, isPathDenied, isPathNotAllowed

\* An allowed change of an initialised repository has a scope, every path it
\* reaches is within it, and CHECK has passed.
LEMMA AllowedIsGrounded ==
    ASSUME NEW o \in Contexts, guard.inited, guard.decision \in Decisions,
           o.intent = "mutate", toRepoRelativePath(o.target) \in Paths,
           disk \in [Paths -> DiskEntries],
           projectRuntimeDecision(toRuntimeContext(disk, o, Evaluation)) = "allow"
    PROVE  /\ guard.scoped # NoContract /\ guard.decision = "PASS"
           /\ \A p \in Reached(o.target) : WithinScope(Rules[guard.budget], p)
  <1> DEFINE c == toRuntimeContext(disk, o, Evaluation)
             target == toRepoRelativePath(o.target)
             paths == TargetPaths(disk, target)
             found == classifyTargetCreation(disk, target).state
  <1>0. target # NoPath
    BY NoPathIsNone
  <1>1. /\ c.inited = guard.inited /\ c.intent = o.intent
        /\ c.decision = guard.decision
    BY DEF toRuntimeContext, Evaluation
  <1>2. c.resolved <=> found # "unsafe" /\ Scope.known
    BY <1>0 DEF toRuntimeContext, Evaluation
  <1>3. /\ c.own <=> paths \cap OwnPaths # {}
        /\ c.denied <=> Scope.known /\ isPathDenied(Scope, paths)
        /\ c.notAllowed <=> Scope.known /\ isPathNotAllowed(Scope, paths)
        /\ Scope.known => c.sensitive = buildSensitiveFlags(Scope, paths)
    BY <1>0 DEF toRuntimeContext, Evaluation
  <1>4. ~Blocking(c) /\ ~Asking(c)
    BY <1>1, ProjectionAllows
  <1> HIDE DEF c, paths, found
  <1>5. /\ c.resolved /\ ~c.own /\ ~c.denied /\ c.decision \notin {"REPAIR", "HUMAN_REVIEW"}
        /\ ~c.notAllowed /\ c.sensitive = {}
    BY <1>4 DEF Blocking, Asking
  <1>6. Scope.known /\ found # "unsafe"
    BY <1>2, <1>5
  <1>7. guard.decision = "PASS"
    BY <1>1, <1>5 DEF Decisions
  <1>8. guard.scoped # NoContract /\ Scope = Rules[guard.budget]
    BY <1>6 DEF Scope, NoScope
  <1>9. \A p \in paths : WithinScope(Scope, p)
    BY <1>3, <1>5, <1>6, HeldIsWithin
  <1> QED
    BY <1>6, <1>7, <1>8, <1>9, ReachedIsHeld DEF found, paths, target

-----------------------------------------------------------------------------
(* The guard's invariant.                                                   *)

GuardRecord ==
    [phase : GuardPhases, inited : BOOLEAN, seen : ContractRef, checked : ContractRef,
     decision : Decisions, scoped : ContractRef, budget : BudgetRef, blocked : BOOLEAN,
     stood : BOOLEAN, todo : SUBSET Contexts, targets : SUBSET Paths, action : Actions,
     effect : Effects, edit : Paths \cup {NoPath}]

\* The lifecycle pointed to the contract, and has left it only by closing it.
Past(c) == state.active = c \/ contract[c].status = "closed"

\* Between the readings of one evaluation.
Followed ==
    /\ guard.phase \in {"check", "checkContract", "resolve"} =>
          /\ guard.seen \in Contracts /\ Past(guard.seen)
          /\ guard.scoped = NoContract /\ guard.targets = {}
    /\ guard.phase \in {"checkContract", "resolve"} =>
          /\ guard.checked \in Contracts
          /\ guard.checked = guard.seen \/ contract[guard.seen].status = "closed"

\* What the scope and the grounds of an allowed change are.
Grounded ==
    /\ guard.scoped # NoContract =>
          guard.stood /\ guard.checked = guard.scoped /\ guard.budget \in Budgets
    /\ guard.action = "allow" /\ guard.inited /\ guard.targets # {} =>
          /\ guard.scoped # NoContract /\ guard.decision = "PASS"
          /\ \A p \in guard.targets : WithinScope(Rules[guard.budget], p)
    /\ guard.phase = "reference" /\ guard.targets # {} => guard.action = "allow"

GuardInv == guard \in GuardRecord /\ Followed /\ Grounded

LEMMA IdleTyped ==
    /\ Idle \in GuardRecord
    /\ {"idle", "check", "checkContract", "resolve", "event", "project", "reference", "verify"}
          \subseteq GuardPhases
    /\ {"PASS", "HUMAN_REVIEW"} \subseteq Decisions
    /\ {"allow", "deny"} \subseteq Effects
    /\ TRUE \in BOOLEAN
  BY DEF Idle, GuardRecord, GuardPhases, ContractRef, BudgetRef, Decisions, Actions, Effects

\* A guard with no scope and no target has nothing to answer for.
LEMMA Unbound ==
    ASSUME guard' \in GuardRecord, guard'.phase \in {"idle", "event", "reference", "verify"},
           guard'.scoped = NoContract, guard'.targets = {}
    PROVE  GuardInv'
  BY DEF GuardInv, Followed, Grounded

\* The readings of an evaluation.
LEMMA ReadingsKeepGuard ==
    ASSUME Inductive, Kept, GuardInv, UNCHANGED <<state, contract>>,
           ReadState \/ CheckReadsState \/ CheckDecides \/ ResolveContract
    PROVE  GuardInv'
  <1>1. guard \in GuardRecord /\ state.active \in ContractRef
    BY DEF GuardInv, Inductive, TypeOK, StateFile
  <1>2. CASE ReadState
    <2>1. CASE guard' = [Idle EXCEPT !.phase = "event", !.inited = TRUE, !.decision = "HUMAN_REVIEW"]
      <3>1. guard' \in GuardRecord
        BY <2>1, IdleTyped, Zenon DEF GuardRecord
      <3>2. guard'.phase = "event" /\ guard'.scoped = NoContract /\ guard'.targets = {}
        BY <2>1 DEF Idle
      <3> QED
        BY <3>1, <3>2, Unbound
    <2>2. CASE guard' = [Idle EXCEPT !.phase = "event"]
      <3>1. guard' \in GuardRecord
        BY <2>2, IdleTyped, Zenon DEF GuardRecord
      <3>2. guard'.phase = "event" /\ guard'.scoped = NoContract /\ guard'.targets = {}
        BY <2>2 DEF Idle
      <3> QED
        BY <3>1, <3>2, Unbound
    <2>3. CASE guard' = [Idle EXCEPT !.phase = "event", !.inited = TRUE]
      <3>1. guard' \in GuardRecord
        BY <2>3, IdleTyped, Zenon DEF GuardRecord
      <3>2. guard'.phase = "event" /\ guard'.scoped = NoContract /\ guard'.targets = {}
        BY <2>3 DEF Idle
      <3> QED
        BY <3>1, <3>2, Unbound
    <2>4. CASE /\ state.active # NoContract
               /\ guard' = [Idle EXCEPT !.phase = "check", !.inited = TRUE, !.seen = state.active]
      <3>1. guard' \in GuardRecord
        BY <1>1, <2>4, IdleTyped, Zenon DEF GuardRecord
      <3>2. /\ guard'.phase = "check" /\ guard'.seen = state.active /\ guard'.scoped = NoContract
            /\ guard'.targets = {}
        BY <2>4 DEF Idle
      <3> QED
        BY <1>1, <2>4, <3>1, <3>2 DEF GuardInv, Followed, Grounded, Past, ContractRef
    <2> QED
      BY <1>2, <2>1, <2>2, <2>3, <2>4 DEF ReadState
  <1>3. ASSUME guard.phase \in {"check", "checkContract"}, guard' = CheckFailed
        PROVE  GuardInv'
    <2>1. guard' \in GuardRecord
      BY <1>1, <1>3, IdleTyped, Zenon DEF CheckFailed, GuardRecord
    <2>2. guard'.phase = "event" /\ guard'.scoped = guard.scoped /\ guard'.targets = guard.targets
      BY <1>1, <1>3 DEF CheckFailed, GuardRecord
    <2> QED
      BY <1>3, <2>1, <2>2 DEF GuardInv, Followed, Grounded
  <1>4. CASE CheckReadsState
    <2>1. CASE /\ state.active # NoContract
               /\ guard' = [guard EXCEPT !.phase = "checkContract", !.checked = state.active]
      <3>1. guard' \in GuardRecord
        BY <1>1, <2>1, IdleTyped, Zenon DEF GuardRecord
      <3>2. /\ guard'.phase = "checkContract" /\ guard'.scoped = guard.scoped
            /\ guard'.targets = guard.targets /\ guard'.seen = guard.seen
            /\ guard'.checked = state.active
        BY <1>1, <2>1 DEF GuardRecord
      <3>3. state.active \in Contracts /\ guard.phase = "check"
        BY <1>1, <1>4, <2>1 DEF ContractRef, CheckReadsState
      <3> QED
        BY <3>1, <3>2, <3>3 DEF GuardInv, Followed, Grounded, Past
    <2> QED
      BY <1>3, <1>4, <2>1 DEF CheckReadsState
  <1>5. CASE CheckDecides
    <2>1. ASSUME NEW decision \in Decisions,
                 guard' = [guard EXCEPT !.phase = "resolve", !.decision = decision]
          PROVE  GuardInv'
      <3>1. guard' \in GuardRecord
        BY <1>1, <2>1, IdleTyped, Zenon DEF GuardRecord
      <3>2. /\ guard'.phase = "resolve" /\ guard'.scoped = guard.scoped
            /\ guard'.targets = guard.targets /\ guard'.seen = guard.seen
            /\ guard'.checked = guard.checked
        BY <1>1, <2>1 DEF GuardRecord
      <3> QED
        BY <1>5, <3>1, <3>2 DEF GuardInv, Followed, Grounded, Past, CheckDecides
    <2> QED
      BY <1>3, <1>5, <2>1 DEF CheckDecides
  <1>6. CASE ResolveContract
    <2>1. /\ guard.phase = "resolve" /\ guard.seen \in Contracts /\ Past(guard.seen)
          /\ guard.checked = guard.seen \/ contract[guard.seen].status = "closed"
          /\ guard.scoped = NoContract /\ guard.targets = {}
      BY <1>6 DEF ResolveContract, GuardInv, Followed
    <2>2. CASE guard' = [guard EXCEPT !.phase = "event"]
      <3>1. guard' \in GuardRecord
        BY <1>1, <2>2, IdleTyped, Zenon DEF GuardRecord
      <3>2. guard'.phase = "event" /\ guard'.scoped = guard.scoped /\ guard'.targets = guard.targets
        BY <1>1, <2>2 DEF GuardRecord
      <3> QED
        BY <2>1, <3>1, <3>2 DEF GuardInv, Followed, Grounded
    <2>3. CASE ResolvesTo(guard.seen)
      <3> DEFINE b == contract[guard.seen].budget
      <3>1. PICK gate \in Gates :
               guard' = [guard EXCEPT !.phase = "event", !.scoped = guard.seen,
                             !.budget = contract[guard.seen].budget,
                             !.blocked = projectExecutionGateBlock(gate),
                             !.stood = /\ state.active = guard.seen
                                       /\ contract[guard.seen].status = "active"]
        BY <1>6, <2>3 DEF ResolveContract
      <3>2. b \in Budgets /\ b \in BudgetRef /\ guard.seen \in ContractRef
        BY <2>1, <2>3 DEF ResolvesTo, Kept, FilesKept, Scoped, BudgetRef, ContractRef
      <3>3. state.active = guard.seen /\ contract[guard.seen].status = "active"
            /\ guard.checked = guard.seen
        BY <2>1, <2>3 DEF ResolvesTo, Past
      <3> DEFINE k == projectExecutionGateBlock(gate)
      <3>4. k \in BOOLEAN
        BY DEF projectExecutionGateBlock
      <3>5. guard' = [guard EXCEPT !.phase = "event", !.scoped = guard.seen, !.budget = b,
                                   !.blocked = k, !.stood = TRUE]
        BY <3>1, <3>3
      <3> HIDE DEF b, k
      <3>6. guard' \in GuardRecord
        BY <1>1, <3>2, <3>4, <3>5, IdleTyped, Zenon DEF GuardRecord
      <3>7. /\ guard'.phase = "event" /\ guard'.scoped = guard.seen /\ guard'.budget = b
            /\ guard'.stood /\ guard'.targets = guard.targets /\ guard'.checked = guard.checked
        BY <1>1, <3>5 DEF GuardRecord
      <3> QED
        BY <2>1, <3>2, <3>3, <3>6, <3>7 DEF GuardInv, Followed, Grounded
    <2> QED
      BY <1>6, <2>2, <2>3 DEF ResolveContract
  <1> QED
    BY <1>2, <1>4, <1>5, <1>6

\* The stricter of two is lax only where both are.
LEMMA StricterAllows ==
    /\ \A a, b \in Actions : /\ MoreRestrictive(a, b) \in Actions
                             /\ MoreRestrictive(a, b) = "allow" => a = "allow" /\ b = "allow"
    /\ \A a \in Actions, h \in Effects :
          LET effect == effectFromRank(Max2(permissionRank(h), projectionRank(a)))
          IN  effect \in Effects /\ (effect = "allow" => a = "allow")
  <1>1. ASSUME NEW a \in Actions
        PROVE  projectionRank(a) = IF a = "allow" THEN 0 ELSE IF a = "ask" THEN 1 ELSE 2
    BY DEF Actions, projectionRank
  <1>2. ASSUME NEW h \in Effects
        PROVE  permissionRank(h) = IF h = "allow" THEN 0 ELSE IF h = "ask" THEN 1 ELSE 2
    BY DEF Effects, permissionRank
  <1>3. ASSUME NEW a \in Actions, NEW b \in Actions
        PROVE  /\ MoreRestrictive(a, b) \in Actions
               /\ MoreRestrictive(a, b) = "allow" => a = "allow" /\ b = "allow"
    BY <1>1 DEF MoreRestrictive, Actions
  <1>4. ASSUME NEW a \in Actions, NEW h \in Effects
        PROVE  LET effect == effectFromRank(Max2(permissionRank(h), projectionRank(a)))
               IN  effect \in Effects /\ (effect = "allow" => a = "allow")
    BY <1>1, <1>2 DEF Actions, Effects, effectFromRank, Max2
  <1> QED
    BY <1>3, <1>4

\* One operation more, and what its projection adds.
LEMMA ProjectKeepsGuard ==
    ASSUME WorldTyped, GuardInv, guard.phase \in {"event", "project"},
           NEW operations \in SUBSET Contexts, NEW edit \in Paths \cup {NoPath},
           Project(operations, edit)
    PROVE  GuardInv'
  <1>1. PICK o \in operations, host \in Effects :
           LET context == toRuntimeContext(disk, o, Evaluation)
               mutated == IF o.intent = "mutate" THEN Reached(o.target) ELSE {}
               projected == [guard EXCEPT !.phase = "project", !.edit = edit,
                                !.todo = operations \ {o},
                                !.targets = @ \cup mutated,
                                !.action = MoreRestrictive(@, projectRuntimeDecision(context))]
           IN guard' = IF projected.todo = {} THEN Combined(projected, host) ELSE projected
    BY DEF Project
  <1> DEFINE context == toRuntimeContext(disk, o, Evaluation)
             said == projectRuntimeDecision(context)
             mutated == IF o.intent = "mutate" THEN Reached(o.target) ELSE {}
             targets == guard.targets \cup mutated
             left == operations \ {o}
             action == MoreRestrictive(guard.action, said)
             g == [guard EXCEPT !.phase = "project", !.edit = edit, !.todo = left,
                                !.targets = targets, !.action = action]
  <1>2. guard' = IF g.todo = {} THEN Combined(g, host) ELSE g
    BY <1>1
  <1>3. /\ guard \in GuardRecord /\ o \in Contexts /\ disk \in [Paths -> DiskEntries]
        /\ guard.decision \in Decisions /\ guard.action \in Actions /\ guard.targets \subseteq Paths
        /\ guard.inited \in BOOLEAN
    BY DEF GuardInv, GuardRecord, WorldTyped
  <1>4. said \in Actions
    BY DEF projectRuntimeDecision, Actions
  <1>5. mutated \subseteq Paths
    BY <1>3, UnderstoodTyped DEF Reached, DiskEntries
  <1>6. mutated # {} => o.intent = "mutate" /\ toRepoRelativePath(o.target) \in Paths
    BY UnderstoodTyped DEF Reached
  <1>7. said = "allow" /\ guard.inited /\ mutated # {} =>
           /\ guard.scoped # NoContract /\ guard.decision = "PASS"
           /\ \A p \in mutated : WithinScope(Rules[guard.budget], p)
    <2>1. CASE said = "allow" /\ guard.inited /\ mutated # {}
      <3>1. mutated = Reached(o.target)
        BY <1>6, <2>1
      <3> QED
        BY <1>3, <1>6, <2>1, <3>1, AllowedIsGrounded
    <2> QED
      BY <2>1
  <1> HIDE DEF said, mutated, context
  <1>8. /\ action \in Actions /\ (action = "allow" => guard.action = "allow" /\ said = "allow")
        /\ targets \in SUBSET Paths /\ left \in SUBSET Contexts
    BY <1>3, <1>4, <1>5, StricterAllows
  <1> HIDE DEF action, left
  <1>9. action = "allow" /\ guard.inited /\ targets # {} =>
           /\ guard.scoped # NoContract /\ guard.decision = "PASS"
           /\ \A p \in targets : WithinScope(Rules[guard.budget], p)
    BY <1>7, <1>8 DEF GuardInv, Grounded
  <1> HIDE DEF targets
  <1>10. g \in GuardRecord
    BY <1>3, <1>8, IdleTyped, Zenon DEF GuardRecord
  <1>11. /\ g.phase = "project" /\ g.inited = guard.inited /\ g.scoped = guard.scoped
         /\ g.stood = guard.stood /\ g.checked = guard.checked /\ g.budget = guard.budget
         /\ g.decision = guard.decision /\ g.targets = targets /\ g.action = action
         /\ g.edit = edit
    BY <1>3 DEF GuardRecord
  <1>12. guard.scoped # NoContract =>
            guard.stood /\ guard.checked = guard.scoped /\ guard.budget \in Budgets
    BY DEF GuardInv, Grounded
  <1> HIDE DEF g
  <1>13. CASE guard' = g
    BY <1>9, <1>10, <1>11, <1>12, <1>13 DEF GuardInv, Followed, Grounded
  <1>14. CASE guard' = Combined(g, host)
    <2> DEFINE effect == effectFromRank(Max2(permissionRank(host), projectionRank(g.action)))
    <2>1. effect \in Effects /\ (effect = "allow" => action = "allow")
      BY <1>8, <1>11, StricterAllows
    <2>2. guard' = IF effect = "allow" /\ g.targets # {}
                   THEN [g EXCEPT !.phase = "reference", !.blocked = FALSE]
                   ELSE [Idle EXCEPT !.phase = "reference", !.effect = effect, !.edit = g.edit]
      BY <1>14 DEF Combined
    <2> HIDE DEF effect
    <2>3. CASE guard' = [Idle EXCEPT !.phase = "reference", !.effect = effect, !.edit = g.edit]
      <3>1. guard' \in GuardRecord
        BY <1>11, <2>1, <2>3, IdleTyped, Zenon DEF GuardRecord
      <3>2. guard'.phase = "reference" /\ guard'.scoped = NoContract /\ guard'.targets = {}
        BY <2>3 DEF Idle
      <3> QED
        BY <3>1, <3>2, Unbound
    <2>4. CASE effect = "allow" /\ guard' = [g EXCEPT !.phase = "reference", !.blocked = FALSE]
      <3>1. FALSE \in BOOLEAN
        OBVIOUS
      <3>2. guard' \in GuardRecord
        BY <1>10, <2>4, <3>1, IdleTyped, Zenon DEF GuardRecord
      <3>3. /\ guard'.phase = "reference" /\ guard'.inited = g.inited /\ guard'.scoped = g.scoped
            /\ guard'.stood = g.stood /\ guard'.checked = g.checked /\ guard'.budget = g.budget
            /\ guard'.decision = g.decision /\ guard'.targets = g.targets
            /\ guard'.action = g.action
        BY <1>10, <2>4 DEF GuardRecord
      <3> QED
        BY <1>9, <1>11, <1>12, <2>1, <2>4, <3>2, <3>3 DEF GuardInv, Followed, Grounded
    <2> QED
      BY <2>2, <2>3, <2>4
  <1> QED
    BY <1>2, <1>13, <1>14

\* An event is projected onto one of the repository's paths, or none.
LEMMA EditedPathTyped ==
    ASSUME NEW event
    PROVE  EditedPath(event) \in Paths \cup {NoPath}
  <1>1. CASE /\ event.action = "edit" /\ Cardinality(event.resources) = 1
             /\ \A r \in event.resources : Meaning[r] \in PathLike \cap Paths
    <2>1. CASE event.resources = {}
      <3>1. Cardinality(event.resources) = 0
        BY <2>1, FS_EmptySet
      <3> QED
        BY <1>1, <3>1
    <2>2. CASE event.resources # {}
      <3>1. \E p \in Paths : \E r \in event.resources : Meaning[r] = p
        BY <1>1, <2>2
      <3> QED
        BY <1>1, <3>1 DEF EditedPath
    <2> QED
      BY <2>1, <2>2
  <1> QED
    BY <1>1 DEF EditedPath

LEMMA HookKeepsGuard ==
    ASSUME Inductive, Kept, WorldTyped, GuardInv, Hook
    PROVE  GuardInv'
  <1>1. UNCHANGED <<state, contract>>
    BY HookObserves DEF environment, vars
  <1>2. guard \in GuardRecord /\ guard.todo \in SUBSET Contexts
        /\ guard.edit \in Paths \cup {NoPath} /\ guard.effect \in Effects
    BY DEF GuardInv, GuardRecord
  <1>3. ASSUME NEW effect \in Effects, guard' = Answered(effect)
        PROVE  GuardInv'
    <2>1. guard' \in GuardRecord
      BY <1>3, IdleTyped, Zenon DEF Answered, GuardRecord
    <2>2. guard'.phase = "idle" /\ guard'.scoped = NoContract /\ guard'.targets = {}
      BY <1>3 DEF Answered, Idle
    <2> QED
      BY <2>1, <2>2, Unbound
  <1>4. guard' = Deny => GuardInv'
    BY <1>3, IdleTyped DEF Deny
  <1>5. CASE ReadEvent
    <2>1. PICK event \in Events : Project(buildOperationContexts(event), EditedPath(event))
      BY <1>5 DEF ReadEvent
    <2>2. buildOperationContexts(event) \in SUBSET Contexts /\ EditedPath(event) \in Paths \cup {NoPath}
      BY EventsAssumption, EditedPathTyped
    <2> QED
      BY <1>5, <2>1, <2>2, ProjectKeepsGuard DEF ReadEvent
  <1>6. CASE ProjectNext
    BY <1>2, <1>6, ProjectKeepsGuard DEF ProjectNext
  <1>7. ASSUME guard' = [Answered(guard.effect) EXCEPT !.phase = "verify"]
        PROVE  GuardInv'
    <2>1. Answered(guard.effect) \in GuardRecord
      BY <1>2, IdleTyped, Zenon DEF Answered, GuardRecord
    <2>2. guard' \in GuardRecord
      BY <1>7, <2>1, IdleTyped, Zenon DEF GuardRecord
    <2>3. guard'.phase = "verify" /\ guard'.scoped = NoContract /\ guard'.targets = {}
      BY <1>7 DEF Answered, Idle
    <2> QED
      BY <2>2, <2>3, Unbound
  <1>8. CASE ReadReference
    BY <1>2, <1>3, <1>4, <1>7, <1>8 DEF ReadReference
  <1>9. CASE Verified
    BY <1>2, <1>3, <1>4, <1>9 DEF Verified
  <1>10. CASE HookThrows
    BY <1>4, <1>10 DEF HookThrows
  <1> QED
    BY <1>1, <1>5, <1>6, <1>8, <1>9, <1>10, ReadingsKeepGuard DEF Hook

\* A contract an evaluation has read is pointed to until it is closed, and then
\* stays closed: AMEND and failures leave it, CLOSE writes it before the pointer.
LEMMA PastStays ==
    ASSUME Inductive, Kept, [Next]_vars, Inductive', NEW c \in Contracts, Past(c)
    PROVE  Past(c)' /\ (contract[c].status = "closed" => contract'[c].status = "closed")
  <1>1. contract[c].status = "closed" => contract'[c].status = "closed"
    BY GovernedStep
  <1>2. CASE state.active = c /\ state'.active # c
    <2>1. ~UNCHANGED files
      BY <1>2 DEF files
    <2>2. ~Recorded
      BY <1>2 DEF Recorded
    <2>3. ~Settled
      BY <1>2, SettledIs DEF Inductive
    <2>4. ASSUME NEW p \in Procs, Writes(p)
          PROVE  FALSE
      BY <1>2, <2>4, WritesOne
    <2>5. ASSUME NEW p \in Procs, StartActivate(p)
          PROVE  FALSE
      <3>1. state.active = NoContract
        BY <2>5 DEF StartActivate, At, Inductive, WritesDone
      <3> QED
        BY <1>2, <3>1, ConstantsAssumption
    <2>6. ASSUME NEW p \in Procs, CloseState(p)
          PROVE  contract[c].status = "closed"
      BY <1>2, <2>6, Retires
    <2> QED
      BY <1>1, <2>1, <2>2, <2>3, <2>4, <2>5, <2>6, StepKinds DEF Past
  <1> QED
    BY <1>1, <1>2 DEF Past

LEMMA GuardStep ==
    ASSUME Inductive, Kept, Inductive', WorldTyped, GuardInv, [GuardNext]_guardVars
    PROVE  GuardInv'
  <1>1. CASE guard' = guard
    <2>1. [Next]_vars
      BY GuardStepIsLifecycle DEF guardVars
    <2>2. ASSUME guard.phase \in {"check", "checkContract", "resolve"}
          PROVE  /\ Past(guard.seen)'
                 /\ contract[guard.seen].status = "closed" => contract'[guard.seen].status = "closed"
      <3>1. guard.seen \in Contracts /\ Past(guard.seen)
        BY <2>2 DEF GuardInv, Followed
      <3>2. PICK c \in Contracts : c = guard.seen
        BY <3>1
      <3>3. Past(c)
        BY <3>1, <3>2
      <3>4. Past(c)' /\ (contract[c].status = "closed" => contract'[c].status = "closed")
        BY <2>1, <3>3, PastStays
      <3> QED
        BY <1>1, <3>2, <3>4 DEF Past
    <2> QED
      BY <1>1, <2>2 DEF GuardInv, Followed, Grounded
  <1>2. CASE Hook
    BY <1>2, HookKeepsGuard
  <1> QED
    BY <1>1, <1>2 DEF GuardNext, guardVars

LEMMA GuardInvariant ==
    GuardSpec => [](Inductive /\ Kept /\ WorldTyped /\ ObservationTyped /\ GuardInv)
  <1>1. GuardInit => GuardInv
    <2> SUFFICES ASSUME GuardInit PROVE GuardInv
      OBVIOUS
    <2>1. guard = Idle
      BY DEF GuardInit
    <2>2. guard.phase = "idle" /\ guard.scoped = NoContract /\ guard.targets = {}
      BY <2>1 DEF Idle
    <2> QED
      BY <2>1, <2>2, IdleTyped DEF GuardInv, Followed, Grounded
  <1>2. /\ Inductive /\ Kept /\ WorldTyped /\ GuardInv /\ Inductive' /\ [GuardNext]_guardVars
        => GuardInv'
    BY GuardStep
  <1> QED
    BY <1>1, <1>2, VerificationInvariant, PTL DEF GuardSpec

-----------------------------------------------------------------------------

\* The types of the guard, of the verification and of what they look at.
THEOREM GuardTypes == GuardSpec => []GuardTypeOK
  <1>1. WorldTyped /\ ObservationTyped /\ GuardInv => GuardTypeOK
    <2> SUFFICES ASSUME WorldTyped, ObservationTyped, GuardInv PROVE GuardTypeOK
      OBVIOUS
    <2>1. /\ disk \in [Paths -> DiskEntries] /\ registry.grant \in Works \cup {NoGrant}
          /\ registry.lifecycle \in {"NONE", "ACTIVE", "TERMINAL"}
          /\ registry.revision \in 0..MaxRegistryWrites
          /\ registryLock \in {Free, "local", "foreign"} /\ edits \in 0..MaxEdits
      BY DEF WorldTyped, RegistryFile
    <2>2. /\ obs.step \in 0..Len(Script) /\ obs.request \in Requests \cup {NotRead}
          /\ obs.fits \in BOOLEAN /\ obs.settled \in BOOLEAN
          /\ obs.answer \in {"none", "VERIFIED", "REJECTED"}
          /\ obs.step # 0 => obs.request \in Requests /\ obs.answer = "none"
      BY ScriptIs DEF ObservationTyped, Observation
    <2>3. /\ guard.phase \in GuardPhases /\ guard.inited \in BOOLEAN /\ guard.stood \in BOOLEAN
          /\ {guard.seen, guard.checked, guard.scoped} \subseteq Contracts \cup {NoContract}
          /\ guard.decision \in Decisions /\ guard.budget \in Budgets \cup {NoBudget}
          /\ guard.blocked \in BOOLEAN /\ guard.todo \subseteq Contexts
          /\ guard.targets \subseteq Paths /\ guard.action \in Actions
          /\ guard.effect \in Effects /\ guard.edit \in Paths \cup {NoPath}
      BY DEF GuardInv, GuardRecord, ContractRef, BudgetRef
    <2>4. guard.scoped # NoContract => guard.budget \in Budgets
      BY DEF GuardInv, Grounded
    <2> QED
      BY <2>1, <2>2, <2>3, <2>4 DEF GuardTypeOK
  <1> QED
    BY <1>1, GuardInvariant, PTL

\* Whatever commands run between the guard's readings, a change it allows of
\* targets it understands as paths was judged by CHECK and by the scope of one
\* contract, active at that moment, and each of these paths, and the place it
\* leads to, is within that scope.
THEOREM AllowedIsUnderOneContract == GuardSpec => []AllowedUnderOneContract
  <1>1. GuardInv => AllowedUnderOneContract
    BY DEF GuardInv, Grounded, AllowedUnderOneContract
  <1> QED
    BY <1>1, GuardInvariant, PTL
=============================================================================
