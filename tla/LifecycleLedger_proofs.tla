------------------------ MODULE LifecycleLedger_proofs ------------------------
(***************************************************************************)
(* The audit history, replayed, gives the lifecycle files: for every number *)
(* of processes, contracts, scopes and faults.                              *)
(***************************************************************************)
EXTENDS Lifecycle_proofs

-----------------------------------------------------------------------------
(* Replaying a history.  A replay is determined by its first value and its  *)
(* step, so that every function told by the history will do; no two of them *)
(* need to be compared.                                                     *)

View(phase, active, lastClosed, contracts) ==
    [phase |-> phase, active |-> active, lastClosed |-> lastClosed, files |-> contracts]
FreshView == View("absent", NoContract, NoContract, [c \in Contracts |-> NoFile])

\* The views f after each of the first records of h.
Tells(f, h) ==
    f = [n \in 0..Len(h) |-> IF n = 0 THEN FreshView ELSE ReplayStep(f[n - 1], h[n])]
ViewOf(v, h) == \E f : Tells(f, h) /\ v = f[Len(h)]

LEMMA ToldAt ==
    ASSUME NEW f, NEW h \in Seq(AuditRecord), Tells(f, h)
    PROVE  /\ f[0] = FreshView
           /\ \A n \in 1..Len(h) : f[n] = ReplayStep(f[n - 1], h[n])
  <1>1. Len(h) \in Nat
    OBVIOUS
  <1>2. \A n \in 0..Len(h) : f[n] = IF n = 0 THEN FreshView ELSE ReplayStep(f[n - 1], h[n])
    BY Zenon DEF Tells
  <1> QED
    BY <1>1, <1>2

LEMMA ReplayTells ==
    ASSUME NEW h \in Seq(AuditRecord), NEW v, ViewOf(v, h)
    PROVE  ViewOf(Replay(h), h)
  <1>1. PICK f : Tells(f, h)
    BY DEF ViewOf
  <1> DEFINE g == CHOOSE g : g = [n \in 0..Len(h) |->
                     IF n = 0 THEN FreshView ELSE ReplayStep(g[n - 1], h[n])]
  <1>2. Replay(h) = g[Len(h)]
    BY DEF Replay, FreshView, View
  <1>3. Tells(g, h)
    BY <1>1 DEF Tells
  <1> QED
    BY <1>2, <1>3, Zenon DEF ViewOf

\* A record appended to a history adds its step to the replay.
LEMMA AppendedView ==
    ASSUME NEW h \in Seq(AuditRecord), NEW r \in AuditRecord
    PROVE  /\ \A v : ViewOf(v, Append(h, r)) =>
                 \E u : ViewOf(u, h) /\ v = ReplayStep(u, r)
           /\ (\E u : ViewOf(u, h)) => \E v : ViewOf(v, Append(h, r))
  <1> DEFINE k == Append(h, r)
             N == Len(h)
  <1>1. /\ N \in Nat /\ k \in Seq(AuditRecord) /\ Len(k) = N + 1
        /\ k[N + 1] = r /\ \A n \in 1..N : k[n] = h[n]
    OBVIOUS
  <1> HIDE DEF k, N
  <1>2. ASSUME NEW v, ViewOf(v, k)
        PROVE  \E u : ViewOf(u, h) /\ v = ReplayStep(u, r)
    <2>1. PICK f : Tells(f, k) /\ v = f[N + 1]
      BY <1>1, <1>2 DEF ViewOf
    <2> DEFINE g == [n \in 0..N |-> f[n]]
    <2>2. /\ f[0] = FreshView /\ \A n \in 1..(N + 1) : f[n] = ReplayStep(f[n - 1], k[n])
      BY <1>1, <2>1, ToldAt
    <2>3. \A n \in 0..N : g[n] = IF n = 0 THEN FreshView ELSE ReplayStep(g[n - 1], h[n])
      BY <1>1, <2>2
    <2>4. DOMAIN g = 0..N /\ g = [n \in 0..N |-> g[n]]
      OBVIOUS
    <2> HIDE DEF g
    <2>5. g = [n \in 0..N |-> IF n = 0 THEN FreshView ELSE ReplayStep(g[n - 1], h[n])]
      BY <2>3, <2>4
    <2>6. Tells(g, h)
      BY <2>5 DEF Tells, N
    <2>7. g[N] = f[N] /\ v = ReplayStep(f[N], r)
      BY <1>1, <2>1, <2>2 DEF g
    <2> QED
      BY <2>6, <2>7 DEF ViewOf, N
  <1>3. ASSUME NEW u, ViewOf(u, h)
        PROVE  \E v : ViewOf(v, k)
    <2>1. PICK f : Tells(f, h)
      BY <1>3 DEF ViewOf
    <2> DEFINE g == [n \in 0..(N + 1) |-> IF n = N + 1 THEN ReplayStep(f[N], r) ELSE f[n]]
    <2>2. /\ f[0] = FreshView /\ \A n \in 1..N : f[n] = ReplayStep(f[n - 1], h[n])
      BY <2>1, ToldAt DEF N
    <2>3. \A n \in 0..(N + 1) : g[n] = IF n = 0 THEN FreshView ELSE ReplayStep(g[n - 1], k[n])
      <3> TAKE n \in 0..(N + 1)
      <3>1. CASE n = N + 1
        BY <1>1, <3>1
      <3>2. CASE n # N + 1
        BY <1>1, <2>2, <3>2
      <3> QED
        BY <3>1, <3>2
    <2>4. g = [n \in 0..(N + 1) |-> g[n]]
      OBVIOUS
    <2> HIDE DEF g
    <2>5. g = [n \in 0..Len(k) |-> IF n = 0 THEN FreshView ELSE ReplayStep(g[n - 1], k[n])]
      BY <1>1, <2>3, <2>4
    <2> QED
      BY <2>5 DEF Tells, ViewOf
  <1> QED
    BY <1>2, <1>3 DEF k

\* A last record that was pending and is settled adds the step it did not make
\* before.
LEMMA SettledView ==
    ASSUME NEW h \in Seq(AuditRecord), NEW k \in Seq(AuditRecord),
           Len(h) \in Nat \ {0}, Len(k) = Len(h),
           \A n \in 1..Len(h) : n # Len(h) => k[n] = h[n],
           h[Len(h)].outcome = "pending"
    PROVE  /\ \A v : ViewOf(v, k) => \E u : ViewOf(u, h) /\ v = ReplayStep(u, k[Len(h)])
           /\ (\E u : ViewOf(u, h)) => \E v : ViewOf(v, k)
  <1> DEFINE N == Len(h)
  <1>0. /\ N \in Nat \ {0} /\ Len(k) = N
        /\ \A n \in 1..N : n # N => k[n] = h[n]
    OBVIOUS
  <1>1. \A u : ReplayStep(u, h[N]) = u
    BY DEF ReplayStep
  <1> HIDE DEF N
  <1>2. ASSUME NEW v, ViewOf(v, k)
        PROVE  \E u : ViewOf(u, h) /\ v = ReplayStep(u, k[N])
    <2>1. PICK f : Tells(f, k) /\ v = f[N]
      BY <1>0, <1>2 DEF ViewOf
    <2> DEFINE g == [n \in 0..N |-> IF n = N THEN f[N - 1] ELSE f[n]]
    <2>2. /\ f[0] = FreshView /\ \A n \in 1..N : f[n] = ReplayStep(f[n - 1], k[n])
      BY <1>0, <2>1, ToldAt
    <2>3. \A n \in 0..N : g[n] = IF n = 0 THEN FreshView ELSE ReplayStep(g[n - 1], h[n])
      <3> TAKE n \in 0..N
      <3>1. CASE n = N
        BY <1>0, <1>1, <3>1
      <3>2. CASE n # N
        BY <1>0, <2>2, <3>2
      <3> QED
        BY <3>1, <3>2
    <2>4. g = [n \in 0..N |-> g[n]]
      OBVIOUS
    <2>5. g[N] = f[N - 1] /\ v = ReplayStep(f[N - 1], k[N])
      BY <1>0, <2>1, <2>2
    <2> HIDE DEF g
    <2>6. Tells(g, h)
      BY <2>3, <2>4 DEF Tells, N
    <2> QED
      BY <2>5, <2>6 DEF ViewOf, N
  <1>3. ASSUME NEW u, ViewOf(u, h)
        PROVE  \E v : ViewOf(v, k)
    <2>1. PICK f : Tells(f, h)
      BY <1>3 DEF ViewOf
    <2> DEFINE g == [n \in 0..N |-> IF n = N THEN ReplayStep(f[N - 1], k[N]) ELSE f[n]]
    <2>2. /\ f[0] = FreshView /\ \A n \in 1..N : f[n] = ReplayStep(f[n - 1], h[n])
      BY <2>1, ToldAt DEF N
    <2>3. \A n \in 0..N : g[n] = IF n = 0 THEN FreshView ELSE ReplayStep(g[n - 1], k[n])
      <3> TAKE n \in 0..N
      <3>1. CASE n = N
        BY <1>0, <3>1
      <3>2. CASE n # N
        BY <1>0, <2>2, <3>2
      <3> QED
        BY <3>1, <3>2
    <2>4. g = [n \in 0..N |-> g[n]]
      OBVIOUS
    <2> HIDE DEF g
    <2>5. Tells(g, k)
      BY <1>0, <2>3, <2>4 DEF Tells
    <2> QED
      BY <2>5 DEF ViewOf
  <1> QED
    BY <1>2, <1>3 DEF N

\* The history of a new repository.
LEMMA EmptyView == ViewOf(FreshView, << >>)
  <1> DEFINE f == [n \in 0..0 |-> FreshView]
  <1>1. f = [n \in 0..Len(<< >>) |-> IF n = 0 THEN FreshView ELSE ReplayStep(f[n - 1], << >>[n])]
    OBVIOUS
  <1>2. f[Len(<< >>)] = FreshView
    OBVIOUS
  <1> QED
    BY <1>1, <1>2, Zenon DEF Tells, ViewOf

LEMMA EmptyTold ==
    ASSUME NEW v, ViewOf(v, << >>)
    PROVE  v = FreshView
  <1>1. PICK f : Tells(f, << >>) /\ v = f[Len(<< >>)]
    BY DEF ViewOf
  <1>2. << >> \in Seq(AuditRecord) /\ Len(<< >>) = 0
    OBVIOUS
  <1> QED
    BY <1>1, <1>2, ToldAt

\* A step of the replay, by the record.
Done(v, r) == ReplayStep(v, [r EXCEPT !.outcome = "committed"])

LEMMA TerminalStep ==
    ASSUME NEW v, NEW r, r.outcome \notin {"pending", "aborted"}
    PROVE  /\ r.op = "init" => ReplayStep(v, r) = [v EXCEPT !.phase = "initialized"]
           /\ r.op = "start" => ReplayStep(v, r) =
                 [v EXCEPT !.phase = "active", !.active = r.contract,
                           !.files[r.contract] = [status |-> "active", budget |-> r.after]]
           /\ r.op = "amend" => ReplayStep(v, r) = [v EXCEPT !.files[r.contract].budget = r.after]
           /\ r.op = "close" => ReplayStep(v, r) =
                 [v EXCEPT !.phase = "closed", !.active = NoContract,
                           !.lastClosed = r.contract,
                           !.files[r.contract].status = "closed"]
  <1>1. CASE r.op = "init"
    BY <1>1, Zenon DEF ReplayStep
  <1>2. CASE r.op = "start"
    BY <1>2, Zenon DEF ReplayStep
  <1>3. CASE r.op = "amend"
    BY <1>3, Zenon DEF ReplayStep
  <1>4. CASE r.op = "close"
    BY <1>4, Zenon DEF ReplayStep
  <1> QED
    BY <1>1, <1>2, <1>3, <1>4, Zenon

LEMMA ReplayStepIs ==
    ASSUME NEW v, NEW r \in AuditRecord
    PROVE  /\ r.outcome \in {"pending", "aborted"} => ReplayStep(v, r) = v
           /\ r.outcome \notin {"pending", "aborted"} => ReplayStep(v, r) = Done(v, r)
           /\ r.op = "init" => Done(v, r) = [v EXCEPT !.phase = "initialized"]
           /\ r.op = "start" => Done(v, r) =
                 [v EXCEPT !.phase = "active", !.active = r.contract,
                           !.files[r.contract] = [status |-> "active", budget |-> r.after]]
           /\ r.op = "amend" => Done(v, r) = [v EXCEPT !.files[r.contract].budget = r.after]
           /\ r.op = "close" => Done(v, r) =
                 [v EXCEPT !.phase = "closed", !.active = NoContract,
                           !.lastClosed = r.contract,
                           !.files[r.contract].status = "closed"]
  <1> DEFINE s == [r EXCEPT !.outcome = "committed"]
  <1>1. /\ s.op = r.op /\ s.contract = r.contract /\ s.after = r.after /\ s.outcome = "committed"
        /\ r.op \in Operations
    BY DEF AuditRecord
  <1>2. Done(v, r) = ReplayStep(v, s)
    BY DEF Done
  <1> HIDE DEF s
  <1>3. r.outcome \in {"pending", "aborted"} => ReplayStep(v, r) = v
    BY Zenon DEF ReplayStep
  <1>4. s.outcome \notin {"pending", "aborted"}
    BY <1>1
  <1>5. /\ r.op = "init" => Done(v, r) = [v EXCEPT !.phase = "initialized"]
        /\ r.op = "start" => Done(v, r) =
              [v EXCEPT !.phase = "active", !.active = r.contract,
                        !.files[r.contract] = [status |-> "active", budget |-> r.after]]
        /\ r.op = "amend" => Done(v, r) = [v EXCEPT !.files[r.contract].budget = r.after]
        /\ r.op = "close" => Done(v, r) =
              [v EXCEPT !.phase = "closed", !.active = NoContract,
                        !.lastClosed = r.contract,
                        !.files[r.contract].status = "closed"]
    <2>1. /\ s.op = "init" => ReplayStep(v, s) = [v EXCEPT !.phase = "initialized"]
          /\ s.op = "start" => ReplayStep(v, s) =
                [v EXCEPT !.phase = "active", !.active = s.contract,
                          !.files[s.contract] = [status |-> "active", budget |-> s.after]]
          /\ s.op = "amend" => ReplayStep(v, s) = [v EXCEPT !.files[s.contract].budget = s.after]
          /\ s.op = "close" => ReplayStep(v, s) =
                [v EXCEPT !.phase = "closed", !.active = NoContract,
                          !.lastClosed = s.contract,
                          !.files[s.contract].status = "closed"]
      BY <1>4, TerminalStep, Zenon
    <2> QED
      BY <1>1, <1>2, <2>1
  <1>6. r.outcome \notin {"pending", "aborted"} => ReplayStep(v, r) = Done(v, r)
    <2> SUFFICES ASSUME r.outcome \notin {"pending", "aborted"}
                 PROVE  ReplayStep(v, r) = Done(v, r)
      OBVIOUS
    <2>1. r.op = "init" \/ r.op = "start" \/ r.op = "amend" \/ r.op = "close"
      BY <1>1 DEF Operations
    <2> QED
      BY <1>5, <2>1, TerminalStep
  <1> QED
    BY <1>3, <1>5, <1>6

-----------------------------------------------------------------------------
(* What a pending record leaves open.  v is the replay of the history, which *)
(* skips the pending record.                                                *)

OfFiles(contracts) == View(state.phase, state.active, state.lastClosed, contracts)
FilesView == OfFiles(contract)

\* The record of INIT is appended with the state it announces.
HalfInit(v, r) == FilesView = Done(v, r)

\* START has moved the pointer, or at most written its own contract.
HalfStart(v, r) ==
    LET c == r.contract
    IN  /\ c \in Contracts
        /\ \/ state.active = c /\ FilesView = Done(v, r)
           \/ /\ state.active # c /\ state.lastClosed # c
              /\ v = OfFiles([contract EXCEPT ![c] = NoFile])
              /\ contract[c] \in {NoFile, [status |-> "active", budget |-> r.after]}

\* AMEND's contract has the scope before or the one after, and they differ.
HalfAmend(v, r) ==
    LET c == r.contract
    IN  /\ c \in Contracts /\ state.active = c
        /\ contract[c].status = "active"
        /\ r.before # r.after /\ contract[c].budget \in {r.before, r.after}
        /\ v = OfFiles([contract EXCEPT ![c].budget = r.before])

\* CLOSE has moved the pointer, or at most closed the contract; a rejected one
\* changes nothing.
HalfClose(v, r) ==
    LET c == r.contract
    IN  IF r.from # "active" THEN FilesView = v
        ELSE /\ c \in Contracts
             /\ \/ state.active = NoContract /\ FilesView = Done(v, r)
                \/ /\ state.active = c
                   /\ contract[c].status \in {"active", "closed"}
                   /\ v = OfFiles([contract EXCEPT ![c].status = "active"])

Half(v, r) ==
    /\ r.op = "init" => HalfInit(v, r)
    /\ r.op = "start" => HalfStart(v, r)
    /\ r.op = "amend" => HalfAmend(v, r)
    /\ r.op = "close" => HalfClose(v, r)

Explains(v) ==
    /\ PendingEvents(state) = {} => v = FilesView
    /\ \A e \in PendingEvents(state) : Half(v, state.audits[e])

Told ==
    /\ \E v : ViewOf(v, state.audits)
    /\ \A v : ViewOf(v, state.audits) => Explains(v)

TailPending == \A e \in PendingEvents(state) : e = Len(state.audits)

\* A contract and its baseline are on disk together, but for a START under way.
Underway(c) ==
    /\ state.active # c
    /\ \E e \in PendingEvents(state) :
          state.audits[e].op = "start" /\ state.audits[e].contract = c
Baselined == \A c \in Contracts : Underway(c) \/ (baseline[c] <=> contract[c] # NoFile)

\* What a command knows of its own record, and of what it is about to record.
Own(p) == state.audits[job[p].event]
Closing == {"closeWrite", "closeRelease", "closeState", "closeComplete"}
Records(p) ==
    /\ pc[p] \in StartTry \cup StartCleanup => Own(p).op = "start" /\ Own(p).after = job[p].ask
    /\ pc[p] \in {"amendWrite", "amendComplete"} =>
          Own(p).op = "amend" /\ Own(p).after = job[p].ask
    /\ pc[p] \in Closing => Own(p).op = "close" /\ Own(p).from = "active"
    /\ pc[p] = "initComplete" => Own(p).op = "init"
    /\ pc[p] = "amendPersist" => contract[job[p].held].budget # job[p].ask
    /\ pc[p] = "amendComplete" => contract[job[p].held].budget = job[p].ask
    /\ pc[p] = "startPersist" => ArtifactsAbsent(job[p].candidate)
    /\ pc[p] = "rejectClose" => job[p].op # "start"
    /\ pc[p] = "rejectPersist" /\ job[p].op = "start" => ArtifactsAbsent(job[p].held)

FilesTold == Told /\ TailPending /\ Baselined
Ledger ==
    /\ FilesTold
    /\ \A p \in Procs : Records(p)

-----------------------------------------------------------------------------
(* The evidence recovery goes by is right about the replay.                *)

LEMMA OutcomeByOperation ==
    ASSUME NEW s, NEW g, NEW b, NEW r
    PROVE  /\ r.op = "init" =>
                 AuditOutcome(s, g, b, r) = IF s.phase = "absent" THEN "uncertain" ELSE "applied"
           /\ r.op = "start" =>
                 AuditOutcome(s, g, b, r) = StartOutcome(s, g[r.contract], b[r.contract], r)
           /\ r.op = "amend" => AuditOutcome(s, g, b, r) = AmendOutcome(s, g[r.contract], r)
           /\ r.op = "close" => AuditOutcome(s, g, b, r) = CloseOutcome(s, g[r.contract], r)
  <1>1. CASE r.op = "init"
    BY <1>1, Zenon DEF AuditOutcome
  <1>2. CASE r.op = "start"
    BY <1>2, Zenon DEF AuditOutcome
  <1>3. CASE r.op = "amend"
    BY <1>3, Zenon DEF AuditOutcome
  <1>4. CASE r.op = "close"
    BY <1>4, Zenon DEF AuditOutcome
  <1> QED
    BY <1>1, <1>2, <1>3, <1>4, Zenon

\* What each answer about a START, an AMEND and a CLOSE says of the files.
LEMMA StartEvidence ==
    ASSUME NEW r, NEW f, NEW b \in BOOLEAN
    PROVE  /\ StartOutcome(state, f, b, r) = "applied" =>
                 state.active = r.contract \/ state.lastClosed = r.contract
           /\ StartOutcome(state, f, b, r) = "not_applied" =>
                 /\ ~(state.phase = "active" /\ state.active = r.contract)
                 /\ f = NoFile /\ ~b
  BY DEF StartOutcome

LEMMA AmendEvidence ==
    ASSUME NEW r, NEW f
    PROVE  /\ AmendOutcome(state, f, r) = "applied" => f.budget = r.after
           /\ AmendOutcome(state, f, r) = "not_applied" => f.budget = r.before
  BY DEF AmendOutcome

LEMMA CloseEvidence ==
    ASSUME NEW r, NEW f
    PROVE  /\ CloseOutcome(state, f, r) = "applied" =>
                 r.from = "active" /\ state.active = NoContract
           /\ CloseOutcome(state, f, r) = "not_applied" =>
                 \/ r.from = "closed"
                 \/ state.active = r.contract /\ f.status = "active"
  BY DEF CloseOutcome

\* An amendment written is the replay of its record.
LEMMA AmendDone ==
    ASSUME TypeOK, NEW v, NEW r \in AuditRecord, r.op = "amend", HalfAmend(v, r)
    PROVE  /\ contract[r.contract].budget = r.after => FilesView = Done(v, r)
           /\ contract[r.contract].budget = r.before => FilesView = v
  <1> DEFINE c == r.contract
             g == [contract EXCEPT ![c].budget = r.before]
  <1>1. /\ c \in Contracts /\ v = OfFiles(g)
        /\ contract \in [Contracts -> ContractFile]
    BY DEF HalfAmend, TypeOK
  <1>2. Done(v, r) = [v EXCEPT !.files[c].budget = r.after]
    BY ReplayStepIs
  <1>3. Done(v, r) = OfFiles([g EXCEPT ![c].budget = r.after])
    BY <1>1, <1>2 DEF OfFiles, View
  <1>4. [g EXCEPT ![c].budget = r.after] = [contract EXCEPT ![c].budget = r.after]
    BY <1>1 DEF ContractFile
  <1>5. \A b : contract[c].budget = b => [contract EXCEPT ![c].budget = b] = contract
    BY <1>1 DEF ContractFile
  <1>6. contract[c].budget = r.before => g = contract
    BY <1>5
  <1>7. contract[c].budget = r.after => [contract EXCEPT ![c].budget = r.after] = contract
    BY <1>5
  <1> QED
    BY <1>1, <1>3, <1>4, <1>6, <1>7 DEF FilesView

\* Not applied: the files are as the history without the record tells them.
\* Applied: as the history with it.
LEMMA EvidenceIsRight ==
    ASSUME TypeOK, FilesCoherent, NEW v, NEW r \in AuditRecord, Half(v, r)
    PROVE  /\ Evidence(r) = "not_applied" =>
                 /\ FilesView = v
                 /\ r.op = "start" => contract[r.contract] = NoFile /\ ~baseline[r.contract]
           /\ Evidence(r) = "applied" =>
                 /\ FilesView = Done(v, r)
                 /\ r.op = "start" => state.active = r.contract
  <1> DEFINE c == r.contract
  <1>0. /\ contract \in [Contracts -> ContractFile] /\ baseline \in [Contracts -> BOOLEAN]
        /\ NoContract \notin Contracts
        /\ r.op \in Operations /\ Half(v, r)
    BY ConstantsAssumption DEF TypeOK, AuditRecord
  <1>1. CASE r.op = "init"
    <2>1. Evidence(r) \in {"uncertain", "applied"}
      BY <1>1, OutcomeByOperation DEF Evidence
    <2> QED
      BY <1>0, <1>1, <2>1 DEF Half, HalfInit
  <1>2. CASE r.op = "start"
    <2>1. Evidence(r) = StartOutcome(state, contract[c], baseline[c], r)
      BY <1>2, OutcomeByOperation DEF Evidence
    <2>2. HalfStart(v, r) /\ c \in Contracts /\ baseline[c] \in BOOLEAN
      BY <1>0, <1>2 DEF Half, HalfStart
    <2>3. ASSUME Evidence(r) = "not_applied"
          PROVE  FilesView = v /\ contract[c] = NoFile /\ ~baseline[c]
      <3>1. /\ ~(state.phase = "active" /\ state.active = c)
            /\ contract[c] = NoFile /\ ~baseline[c]
        BY <2>1, <2>2, <2>3, StartEvidence
      <3>2. state.active # c
        BY <1>0, <2>2, <3>1 DEF FilesCoherent
      <3>3. v = OfFiles([contract EXCEPT ![c] = NoFile])
        BY <2>2, <3>2 DEF HalfStart
      <3>4. [contract EXCEPT ![c] = NoFile] = contract
        BY <1>0, <2>2, <3>1
      <3> QED
        BY <3>1, <3>3, <3>4 DEF FilesView
    <2>4. ASSUME Evidence(r) = "applied"
          PROVE  FilesView = Done(v, r) /\ state.active = c
      <3>1. state.active = c \/ state.lastClosed = c
        BY <2>1, <2>2, <2>4, StartEvidence
      <3> QED
        BY <2>2, <3>1 DEF HalfStart
    <2> QED
      BY <2>3, <2>4
  <1>3. CASE r.op = "amend"
    <2>1. Evidence(r) = AmendOutcome(state, contract[c], r) /\ HalfAmend(v, r)
      BY <1>0, <1>3, OutcomeByOperation DEF Evidence, Half
    <2> QED
      BY <1>3, <2>1, AmendDone, AmendEvidence
  <1>4. CASE r.op = "close"
    <2>1. Evidence(r) = CloseOutcome(state, contract[c], r) /\ HalfClose(v, r)
      BY <1>0, <1>4, OutcomeByOperation DEF Evidence, Half
    <2>2. ASSUME Evidence(r) = "not_applied"
          PROVE  FilesView = v
      <3>1. \/ r.from = "closed"
            \/ state.active = c /\ contract[c].status = "active"
        BY <2>1, <2>2, CloseEvidence
      <3>2. CASE r.from # "active"
        BY <2>1, <3>2 DEF HalfClose
      <3>3. CASE r.from = "active"
        <4>1. /\ c \in Contracts /\ state.active = c /\ contract[c].status = "active"
              /\ v = OfFiles([contract EXCEPT ![c].status = "active"])
          BY <1>0, <2>1, <3>1, <3>3 DEF HalfClose
        <4>2. [contract EXCEPT ![c].status = "active"] = contract
          BY <1>0, <4>1 DEF ContractFile
        <4> QED
          BY <4>1, <4>2 DEF FilesView
      <3> QED
        BY <3>2, <3>3
    <2>3. ASSUME Evidence(r) = "applied"
          PROVE  FilesView = Done(v, r)
      <3>1. r.from = "active" /\ state.active = NoContract
        BY <2>1, <2>3, CloseEvidence
      <3> QED
        BY <1>0, <2>1, <3>1 DEF HalfClose
    <2> QED
      BY <1>4, <2>2, <2>3
  <1> QED
    BY <1>0, <1>1, <1>2, <1>3, <1>4 DEF Operations

-----------------------------------------------------------------------------
(* How each kind of step keeps the history the account of the files.        *)

LEMMA QuietTold ==
    ASSUME FilesTold, UNCHANGED files
    PROVE  FilesTold'
  <1>1. /\ state' = state /\ contract' = contract /\ baseline' = baseline
        /\ PendingEvents(state') = PendingEvents(state)
    BY DEF files
  <1>2. TailPending' /\ Baselined'
    BY <1>1 DEF FilesTold, TailPending, Baselined, Underway
  <1>3. \A v, r : Half(v, r)' <=> Half(v, r)
    BY <1>1 DEF Half, HalfInit, HalfStart, HalfAmend, HalfClose, FilesView, OfFiles
  <1>4. \A v : Explains(v)' <=> Explains(v)
    BY <1>1, <1>3 DEF Explains, FilesView, OfFiles
  <1> QED
    BY <1>1, <1>2, <1>4 DEF FilesTold, Told

\* A new record in a settled history; u is what the files hold before.
LEMMA AppendTold ==
    ASSUME TypeOK, FilesTold, PendingEvents(state) = {},
           NEW u, u = FilesView, NEW r \in AuditRecord, r.outcome = "pending",
           state'.audits = Append(state.audits, r),
           UNCHANGED <<contract, baseline>>, Half(u, r)'
    PROVE  FilesTold'
  <1> DEFINE n == Len(state.audits)
  <1>1. /\ state.audits \in Seq(AuditRecord) /\ n \in Nat
        /\ \A e \in 1..n : state.audits[e].outcome # "pending"
    BY DEF TypeOK, StateFile, PendingEvents
  <1>2. PendingEvents(state') = {n + 1} /\ state'.audits[n + 1] = r /\ Len(state'.audits) = n + 1
    BY <1>1 DEF PendingEvents
  <1>3. Told'
    <2>1. \E v : ViewOf(v, state'.audits)
      BY <1>1, AppendedView DEF FilesTold, Told
    <2>2. ASSUME NEW v, ViewOf(v, state'.audits)
          PROVE  Explains(v)'
      <3>1. PICK w : ViewOf(w, state.audits) /\ v = ReplayStep(w, r)
        BY <1>1, <2>2, AppendedView
      <3>2. w = u
        BY <3>1 DEF FilesTold, Told, Explains
      <3>3. v = u
        BY <3>1, <3>2, ReplayStepIs
      <3> QED
        BY <1>2, <3>3 DEF Explains
    <2>3. \A v : ViewOf(v, state'.audits) => Explains(v)'
      BY <2>2
    <2> QED
      BY <2>1, <2>3 DEF Told
  <1>4. TailPending'
    BY <1>2 DEF TailPending
  <1>5. Baselined'
    BY DEF FilesTold, Baselined, Underway
  <1> QED
    BY <1>3, <1>4, <1>5 DEF FilesTold

LEMMA Resolving ==
    ASSUME TypeOK, NEW e \in DOMAIN state.audits, NEW o \in Outcomes,
           state' = Resolve(state, e, o)
    PROVE  /\ state'.phase = state.phase /\ state'.active = state.active
           /\ state'.lastClosed = state.lastClosed
           /\ state'.audits \in Seq(AuditRecord) /\ Len(state'.audits) = Len(state.audits)
           /\ \A d \in 1..Len(state.audits) : state'.audits[d] =
                 IF d = e THEN [state.audits[d] EXCEPT !.outcome = o] ELSE state.audits[d]
  <1> DEFINE t == Resolve(state, e, o)
  <1>1. state \in StateFile /\ e \in Nat /\ state' = t
    BY AuditAt DEF TypeOK
  <1>2. /\ t \in StateFile /\ t.phase = state.phase /\ t.active = state.active
        /\ t.lastClosed = state.lastClosed /\ DOMAIN t.audits = DOMAIN state.audits
        /\ \A d \in DOMAIN state.audits : t.audits[d] =
              IF d = e THEN [state.audits[d] EXCEPT !.outcome = o] ELSE state.audits[d]
    BY <1>1, ResolveStore
  <1> HIDE DEF t
  <1>3. Len(t.audits) = Len(state.audits) /\ t.audits \in Seq(AuditRecord)
        /\ DOMAIN state.audits = 1..Len(state.audits)
    BY <1>1, <1>2 DEF StateFile
  <1> QED
    BY <1>1, <1>2, <1>3

\* The pending record is settled as the files are.
LEMMA SettleTold ==
    ASSUME TypeOK, OnePending, FilesTold, NEW e \in PendingEvents(state),
           NEW o \in Outcomes \ {"pending"}, NEW r, r = state.audits[e],
           state' = Resolve(state, e, o), UNCHANGED <<contract, baseline>>,
           \A v : Half(v, r) =>
              /\ o = "aborted" => FilesView = v
              /\ o # "aborted" => FilesView = Done(v, r),
           r.op = "start" => \/ o = "aborted" /\ contract[r.contract] = NoFile /\ ~baseline[r.contract]
                             \/ state.active = r.contract
    PROVE  FilesTold'
  <1> DEFINE n == Len(state.audits)
             s == [r EXCEPT !.outcome = o]
  <1>1. /\ state \in StateFile /\ state.audits \in Seq(AuditRecord) /\ n \in Nat
        /\ e \in DOMAIN state.audits /\ DOMAIN state.audits = 1..n
    BY DEF TypeOK, StateFile, PendingEvents
  <1>2. /\ e = n /\ e \in Nat /\ n \in Nat \ {0} /\ r \in AuditRecord /\ r.outcome = "pending"
        /\ o \in Outcomes
    BY <1>1, AuditAt DEF FilesTold, TailPending, PendingEvents
  <1> HIDE DEF n
  <1>4. /\ state'.phase = state.phase /\ state'.active = state.active
        /\ state'.lastClosed = state.lastClosed
        /\ state'.audits \in Seq(AuditRecord) /\ Len(state'.audits) = n
        /\ DOMAIN state'.audits = 1..n
        /\ \A d \in 1..n : d # n => state'.audits[d] = state.audits[d]
        /\ state'.audits[n] = s
    <2>1. /\ state'.phase = state.phase /\ state'.active = state.active
          /\ state'.lastClosed = state.lastClosed
          /\ state'.audits \in Seq(AuditRecord) /\ Len(state'.audits) = n
          /\ \A d \in 1..n : state'.audits[d] =
                IF d = e THEN [state.audits[d] EXCEPT !.outcome = o] ELSE state.audits[d]
      BY <1>1, <1>2, Resolving DEF n
    <2>2. DOMAIN state'.audits = 1..n
      BY <2>1
    <2>3. state'.audits[n] = s
      BY <1>2, <2>1
    <2>4. \A d \in 1..n : d # n => state'.audits[d] = state.audits[d]
      BY <1>2, <2>1
    <2> QED
      BY <2>1, <2>2, <2>3, <2>4
  <1>5. s \in AuditRecord /\ s.outcome = o
    BY <1>2 DEF AuditRecord
  <1> HIDE DEF s
  <1>6. PendingEvents(state') = {}
    <2>1. \A d \in 1..n : state.audits[d].outcome = "pending" => d = n
      BY <1>1, <1>2 DEF OnePending, PendingEvents
    <2> QED
      BY <1>4, <1>5, <2>1 DEF PendingEvents
  <1>7. FilesView' = FilesView
    BY <1>4 DEF FilesView, OfFiles
  <1>8. \A v : ReplayStep(v, s) = IF o = "aborted" THEN v ELSE Done(v, r)
    <2> TAKE v
    <2>1. [s EXCEPT !.outcome = "committed"] = [r EXCEPT !.outcome = "committed"]
      BY <1>2 DEF AuditRecord, s
    <2>2. Done(v, s) = Done(v, r)
      BY <2>1 DEF Done
    <2>3. /\ o \in {"pending", "aborted"} => ReplayStep(v, s) = v
          /\ o \notin {"pending", "aborted"} => ReplayStep(v, s) = Done(v, s)
      BY <1>5, ReplayStepIs
    <2> QED
      BY <2>2, <2>3
  <1>9. Told'
    <2>0. /\ \A v : ViewOf(v, state'.audits) =>
                \E w : ViewOf(w, state.audits) /\ v = ReplayStep(w, state'.audits[n])
          /\ (\E w : ViewOf(w, state.audits)) => \E v : ViewOf(v, state'.audits)
      BY <1>1, <1>2, <1>4, SettledView DEF n
    <2>1. \E v : ViewOf(v, state'.audits)
      BY <2>0 DEF FilesTold, Told
    <2>2. ASSUME NEW v, ViewOf(v, state'.audits)
          PROVE  Explains(v)'
      <3>1. PICK w : ViewOf(w, state.audits) /\ v = ReplayStep(w, s)
        BY <1>4, <2>0, <2>2
      <3>2. Half(w, r)
        BY <3>1 DEF FilesTold, Told, Explains
      <3>3. v = FilesView
        BY <1>8, <3>1, <3>2
      <3> QED
        BY <1>6, <1>7, <3>3 DEF Explains
    <2>3. \A v : ViewOf(v, state'.audits) => Explains(v)'
      BY <2>2
    <2> QED
      BY <2>1, <2>3 DEF Told
  <1>10. TailPending'
    BY <1>6 DEF TailPending
  <1>11. Baselined'
    <2> SUFFICES ASSUME NEW c \in Contracts PROVE baseline[c] <=> contract[c] # NoFile
      BY DEF Baselined
    <2>1. CASE Underway(c)
      <3>1. r.op = "start" /\ r.contract = c /\ state.active # c
        BY <2>1 DEF Underway, OnePending
      <3> QED
        BY <3>1
    <2>2. CASE ~Underway(c)
      BY <2>2 DEF FilesTold, Baselined
    <2> QED
      BY <2>1, <2>2
  <1> QED
    BY <1>9, <1>10, <1>11 DEF FilesTold

\* A write under the pending record e.
LEMMA WriteTold ==
    ASSUME OnePending, FilesTold, NEW e \in PendingEvents(state),
           NEW r, r = state.audits[e],
           state'.audits = state.audits,
           \A v : Half(v, r) => Half(v, r)',
           Baselined'
    PROVE  FilesTold'
  <1>1. PendingEvents(state') = PendingEvents(state)
    BY DEF PendingEvents
  <1>2. \A d \in PendingEvents(state) : state.audits[d] = r
    BY DEF OnePending
  <1>3. Told'
    <2>1. ASSUME NEW v, ViewOf(v, state.audits)
          PROVE  Explains(v)'
      <3>1. Half(v, r)'
        BY <2>1 DEF FilesTold, Told, Explains
      <3> QED
        BY <1>1, <1>2, <3>1 DEF Explains
    <2> QED
      BY <2>1 DEF FilesTold, Told
  <1>4. TailPending'
    BY <1>1 DEF FilesTold, TailPending
  <1> QED
    BY <1>3, <1>4 DEF FilesTold

-----------------------------------------------------------------------------
(* The steps that append a record.                                         *)

LEMMA PersistTold ==
    ASSUME Inductive, FilesTold, NEW p \in Procs, pc[p] \in BeforeAppend,
           NEW r \in AuditRecord, r.outcome = "pending", PersistAudit(p, r),
           UNCHANGED <<contract, baseline>>, Half(FilesView, r)
    PROVE  FilesTold'
  <1>1. TypeOK /\ state \in StateFile /\ PendingEvents(state) = {}
    BY DEF Inductive, TypeOK, CopyCurrent
  <1>2. /\ state'.audits = Append(state.audits, r) /\ state'.phase = state.phase
        /\ state'.active = state.active /\ state'.lastClosed = state.lastClosed
        /\ contract' = contract
    BY <1>1, AppendStore DEF PersistAudit
  <1>3. PICK u : u = FilesView
    OBVIOUS
  <1>4. Half(u, r)'
    BY <1>2, <1>3 DEF Half, HalfInit, HalfStart, HalfAmend, HalfClose, FilesView, OfFiles
  <1> QED
    BY <1>1, <1>2, <1>3, <1>4, AppendTold

LEMMA InitTold ==
    ASSUME Inductive, Kept, FilesTold, NEW p \in Procs, InitWrite(p)
    PROVE  FilesTold'
  <1> DEFINE s == Initialized(state)
  <1>1. PICK r : r = NewAudit("init", NoContract, "absent", "initialized", NoBudget, NoBudget)
    OBVIOUS
  <1>2. r \in AuditRecord /\ r.outcome = "pending" /\ r.op = "init"
    BY <1>1, NewAuditType DEF Operations, Phases, ContractRef, BudgetRef
  <1>3. /\ s \in StateFile /\ s.audits = state.audits /\ s.active = state.active
        /\ s.lastClosed = state.lastClosed /\ s.phase = "initialized"
    BY DEF Inductive, TypeOK, Initialized, StateFile, Phases
  <1>4. /\ TypeOK /\ PendingEvents(state) = {}
        /\ state' = Append1(s, r) /\ UNCHANGED <<contract, baseline>>
    BY <1>1 DEF Inductive, InitWrite, At, Kept, Held
  <1> HIDE DEF s
  <1>5. /\ state'.audits = Append(state.audits, r) /\ state'.phase = "initialized"
        /\ state'.active = state.active /\ state'.lastClosed = state.lastClosed
    BY <1>2, <1>3, <1>4, AppendStore
  <1>6. PICK u : u = FilesView
    OBVIOUS
  <1>7. Done(u, r) = [u EXCEPT !.phase = "initialized"]
    BY <1>2, ReplayStepIs
  <1>8. FilesView' = Done(u, r)
    BY <1>4, <1>5, <1>6, <1>7 DEF FilesView, OfFiles, View
  <1>9. Half(u, r)'
    BY <1>2, <1>8 DEF Half, HalfInit
  <1> QED
    BY <1>2, <1>4, <1>5, <1>6, <1>9, AppendTold

\* A START, admitted or rejected, has written nothing for its candidate.
LEMMA NewStart ==
    ASSUME TypeOK, FilesKept, NEW r \in AuditRecord, r.op = "start",
           r.contract \in Contracts, contract[r.contract] = NoFile
    PROVE  Half(FilesView, r)
  <1> DEFINE c == r.contract
  <1>1. state.active # c /\ state.lastClosed # c
    BY ConstantsAssumption DEF FilesKept, LatestClosed, ActiveWritten, NoFile
  <1>2. [contract EXCEPT ![c] = NoFile] = contract
    BY DEF TypeOK
  <1>3. HalfStart(FilesView, r)
    BY <1>1, <1>2 DEF HalfStart, FilesView
  <1> QED
    BY <1>3 DEF Half

LEMMA AppendsTold ==
    ASSUME Inductive, Kept, Ledger, NEW p \in Procs, Appends(p)
    PROVE  FilesTold'
  <1> DEFINE h == job[p].held
             c == job[p].candidate
             b == contract[h].budget
  <1>0. /\ TypeOK /\ FilesKept /\ FilesTold /\ Records(p)
        /\ contract \in [Contracts -> ContractFile]
        /\ h \in ContractRef /\ c \in ContractRef
        /\ job[p].ask \in BudgetRef /\ state.phase \in Phases
        /\ "closed" \in Phases /\ "active" \in Phases /\ NoBudget \in BudgetRef
        /\ "start" \in Operations /\ "amend" \in Operations /\ "close" \in Operations
    BY DEF Inductive, Kept, Ledger, TypeOK, JobRecord, StateFile, Phases, BudgetRef, Operations
  <1>1. CASE StartPersist(p)
    <2>1. PICK r : r = NewAudit("start", c, state.phase, "active", NoBudget, job[p].ask)
      OBVIOUS
    <2>2. /\ PersistAudit(p, r) /\ pc[p] = "startPersist" /\ pc[p] \in BeforeAppend
          /\ UNCHANGED <<contract, baseline>>
      BY <1>1, <2>1 DEF StartPersist, At, BeforeAppend
    <2>3. r \in AuditRecord /\ r.outcome = "pending" /\ r.op = "start" /\ r.contract = c
      BY <1>0, <2>1, NewAuditType
    <2>4. c \in Contracts /\ contract[c] = NoFile
      BY <1>0, <2>2 DEF Inductive, WritesDone, Records, ArtifactsAbsent
    <2> QED
      BY <1>0, <2>2, <2>3, <2>4, NewStart, PersistTold
  <1>2. CASE AmendPersist(p)
    <2>1. PICK r : r = NewAudit("amend", h, "active", "active", b, job[p].ask)
      OBVIOUS
    <2>2. /\ PersistAudit(p, r) /\ pc[p] = "amendPersist" /\ pc[p] \in BeforeAppend
          /\ UNCHANGED <<contract, baseline>>
      BY <1>2, <2>1 DEF AmendPersist, At, BeforeAppend
    <2>3. /\ h \in Contracts /\ state.active = h /\ contract[h].status = "active"
          /\ b # job[p].ask /\ b \in BudgetRef
      BY <1>0, <2>2 DEF Inductive, WritesDone, Records, ContractFile
    <2>4. /\ r \in AuditRecord /\ r.outcome = "pending" /\ r.op = "amend" /\ r.contract = h
      <3>1. PICK g \in ContractRef, x \in BudgetRef, a \in BudgetRef :
               /\ g = h /\ x = b /\ a = job[p].ask
               /\ r = NewAudit("amend", g, "active", "active", x, a)
        BY <1>0, <2>1, <2>3
      <3>2. LET n == NewAudit("amend", g, "active", "active", x, a)
            IN  n \in AuditRecord /\ n.outcome = "pending" /\ n.op = "amend" /\ n.contract = g
        BY <1>0, NewAuditType
      <3> QED
        BY <3>1, <3>2
    <2>5. r.before = b /\ r.after = job[p].ask
      BY <2>1 DEF NewAudit
    <2>6. [contract EXCEPT ![h].budget = b] = contract
      BY <1>0, <2>3 DEF ContractFile
    <2>7. HalfAmend(FilesView, r)
      BY <2>3, <2>4, <2>5, <2>6 DEF HalfAmend, FilesView
    <2>8. Half(FilesView, r)
      BY <2>4, <2>7 DEF Half
    <2> QED
      BY <1>0, <2>2, <2>4, <2>8, PersistTold
  <1>3. CASE ClosePersist(p)
    <2>1. PICK r : r = NewAudit("close", h, "active", "closed", b, b)
      OBVIOUS
    <2>2. /\ PersistAudit(p, r) /\ pc[p] = "closePersist" /\ pc[p] \in BeforeAppend
          /\ UNCHANGED <<contract, baseline>>
      BY <1>3, <2>1 DEF ClosePersist, At, BeforeAppend
    <2>3. h \in Contracts /\ state.active = h /\ PendingEvents(state) = {}
      BY <2>2 DEF Inductive, WritesDone, CopyCurrent
    <2>4. contract[h].status = "active" /\ b \in BudgetRef
      BY <1>0, <2>3 DEF Inductive, FilesCoherent, Named, ContractFile
    <2>5. /\ r \in AuditRecord /\ r.outcome = "pending" /\ r.op = "close" /\ r.contract = h
      <3>1. PICK g \in ContractRef, x \in BudgetRef :
               g = h /\ x = b /\ r = NewAudit("close", g, "active", "closed", x, x)
        BY <1>0, <2>1, <2>4
      <3>2. LET n == NewAudit("close", g, "active", "closed", x, x)
            IN  n \in AuditRecord /\ n.outcome = "pending" /\ n.op = "close" /\ n.contract = g
        BY <1>0, NewAuditType
      <3> QED
        BY <3>1, <3>2
    <2>6. r.from = "active"
      BY <2>1 DEF NewAudit
    <2>7. [contract EXCEPT ![h].status = "active"] = contract
      BY <1>0, <2>3, <2>4 DEF ContractFile
    <2>8. HalfClose(FilesView, r)
      BY <2>3, <2>4, <2>5, <2>6, <2>7 DEF HalfClose, FilesView
    <2>9. Half(FilesView, r)
      BY <2>5, <2>8 DEF Half
    <2> QED
      BY <1>0, <2>2, <2>5, <2>9, PersistTold
  <1>4. CASE RejectPersist(p)
    <2>1. PICK r : r = RejectedAudit(p)
      OBVIOUS
    <2>2. /\ PersistAudit(p, r) /\ pc[p] = "rejectPersist" /\ pc[p] \in BeforeAppend
          /\ UNCHANGED <<contract, baseline>>
      BY <1>4, <2>1 DEF RejectPersist, At, BeforeAppend
    <2>3. h \in Contracts /\ b \in BudgetRef
      BY <1>0, <2>2 DEF Inductive, RecordInPlace, ContractFile
    <2>4. CASE job[p].op = "start"
      <3>1. r = NewAudit("start", h, state.phase, state.phase, NoBudget, job[p].ask)
        BY <2>1, <2>4 DEF RejectedAudit
      <3>2. r \in AuditRecord /\ r.outcome = "pending" /\ r.op = "start" /\ r.contract = h
        BY <1>0, <3>1, NewAuditType
      <3>3. contract[h] = NoFile
        BY <1>0, <2>2, <2>4 DEF Records, ArtifactsAbsent
      <3> QED
        BY <1>0, <2>2, <2>3, <3>2, <3>3, NewStart, PersistTold
    <2>5. CASE job[p].op # "start"
      <3>1. r = NewAudit("close", h, "closed", "closed", b, b)
        BY <2>1, <2>5 DEF RejectedAudit
      <3>2. r \in AuditRecord /\ r.outcome = "pending" /\ r.op = "close"
        <4>1. PICK g \in ContractRef, x \in BudgetRef :
                 r = NewAudit("close", g, "closed", "closed", x, x)
          BY <1>0, <2>3, <3>1
        <4>2. LET n == NewAudit("close", g, "closed", "closed", x, x)
              IN  n \in AuditRecord /\ n.outcome = "pending" /\ n.op = "close"
          BY <1>0, NewAuditType
        <4> QED
          BY <4>1, <4>2
      <3>3. r.from = "closed"
        BY <3>1 DEF NewAudit
      <3>4. Half(FilesView, r)
        BY <3>2, <3>3 DEF Half, HalfClose
      <3> QED
        BY <1>0, <2>2, <3>2, <3>4, PersistTold
    <2> QED
      BY <2>4, <2>5
  <1>5. CASE InitWrite(p)
    BY <1>0, <1>5, InitTold
  <1> QED
    BY <1>1, <1>2, <1>3, <1>4, <1>5 DEF Appends

-----------------------------------------------------------------------------
(* The steps that settle a record.                                         *)

LEMMA EvidenceValues ==
    ASSUME NEW r \in AuditRecord
    PROVE  Evidence(r) \in {"applied", "not_applied", "uncertain"}
  <1> DEFINE f == contract[r.contract]
             b == baseline[r.contract]
  <1>1. r.op = "init" \/ r.op = "start" \/ r.op = "amend" \/ r.op = "close"
    BY DEF AuditRecord, Operations
  <1>2. /\ r.op = "init" => Evidence(r) = IF state.phase = "absent" THEN "uncertain" ELSE "applied"
        /\ r.op = "start" => Evidence(r) = StartOutcome(state, f, b, r)
        /\ r.op = "amend" => Evidence(r) = AmendOutcome(state, f, r)
        /\ r.op = "close" => Evidence(r) = CloseOutcome(state, f, r)
    BY OutcomeByOperation, Zenon DEF Evidence
  <1> HIDE DEF f, b
  <1>3. StartOutcome(state, f, b, r) \in {"applied", "not_applied", "uncertain"}
    BY DEF StartOutcome
  <1>4. AmendOutcome(state, f, r) \in {"applied", "not_applied", "uncertain"}
    BY DEF AmendOutcome
  <1>5. CloseOutcome(state, f, r) \in {"applied", "not_applied", "uncertain"}
    BY DEF CloseOutcome
  <1> QED
    BY <1>1, <1>2, <1>3, <1>4, <1>5

\* Settled by the evidence: aborting a command, or recovering one.
LEMMA JudgedTold ==
    ASSUME Inductive, Kept, FilesTold, NEW e \in PendingEvents(state),
           NEW o \in {"aborted", "reconciled"},
           o = "aborted" => Evidence(state.audits[e]) = "not_applied",
           o = "reconciled" => Evidence(state.audits[e]) = "applied",
           state' = Resolve(state, e, o), UNCHANGED <<contract, baseline>>
    PROVE  FilesTold'
  <1>1. /\ TypeOK /\ FilesCoherent /\ OnePending
        /\ state \in StateFile /\ e \in DOMAIN state.audits
    BY DEF Inductive, Kept, FilesKept, TypeOK, PendingEvents
  <1>2. PICK r \in AuditRecord : r = state.audits[e]
    BY <1>1, AuditAt
  <1>3. \A v : Half(v, r) =>
           /\ o = "aborted" =>
                 /\ FilesView = v
                 /\ r.op = "start" => contract[r.contract] = NoFile /\ ~baseline[r.contract]
           /\ o # "aborted" =>
                 /\ FilesView = Done(v, r)
                 /\ r.op = "start" => state.active = r.contract
    <2> SUFFICES ASSUME NEW v, Half(v, r)
                 PROVE  /\ o = "aborted" =>
                              /\ FilesView = v
                              /\ r.op = "start" => contract[r.contract] = NoFile /\ ~baseline[r.contract]
                        /\ o # "aborted" =>
                              /\ FilesView = Done(v, r)
                              /\ r.op = "start" => state.active = r.contract
      OBVIOUS
    <2>1. /\ Evidence(r) = "not_applied" =>
                /\ FilesView = v
                /\ r.op = "start" => contract[r.contract] = NoFile /\ ~baseline[r.contract]
          /\ Evidence(r) = "applied" =>
                /\ FilesView = Done(v, r)
                /\ r.op = "start" => state.active = r.contract
      BY <1>1, EvidenceIsRight
    <2> QED
      BY <1>2, <2>1
  <1>4. \E v : Half(v, r)
    BY <1>2 DEF FilesTold, Told, Explains
  <1>5. r.op = "start" => \/ o = "aborted" /\ contract[r.contract] = NoFile /\ ~baseline[r.contract]
                          \/ state.active = r.contract
    BY <1>3, <1>4
  <1>6. \A v : Half(v, r) =>
           /\ o = "aborted" => FilesView = v
           /\ o # "aborted" => FilesView = Done(v, r)
    BY <1>3
  <1>7. o \in Outcomes \ {"pending"}
    BY DEF Outcomes
  <1> QED
    BY <1>1, <1>2, <1>5, <1>6, <1>7, SettleTold

\* Settled by the command itself, which has done what it recorded.
LEMMA CommitTold ==
    ASSUME Inductive, Kept, Ledger, NEW p \in Procs,
           InitComplete(p) \/ StartComplete(p) \/ AmendComplete(p) \/ CloseComplete(p)
    PROVE  FilesTold'
  <1> DEFINE e == job[p].event
             c == Subject(p)
  <1>0. /\ TypeOK /\ FilesCoherent /\ OnePending /\ FilesTold /\ Records(p)
        /\ state \in StateFile /\ NoContract \notin Contracts
        /\ contract \in [Contracts -> ContractFile]
    BY ConstantsAssumption DEF Inductive, Kept, FilesKept, Ledger, TypeOK
  <1>1. /\ pc[p] \in {"initComplete", "startComplete", "amendComplete", "closeComplete"}
        /\ pc[p] \in Appended
        /\ CompleteAudit(e) /\ UNCHANGED <<contract, baseline>>
    BY DEF InitComplete, StartComplete, AmendComplete, CloseComplete, At, Appended, StartTry
  <1>2. e \in PendingEvents(state) /\ RecordInPlace(p) /\ WritesDone(p)
    BY <1>1 DEF Inductive, RecordInPlace
  <1>3. PICK d \in PendingEvents(state) : d = e
    BY <1>2
  <1>4. PICK r \in AuditRecord : r = state.audits[d] /\ r = Own(p)
    BY <1>0, <1>3, AuditAt DEF PendingEvents, Own
  <1>5. state' = Resolve(state, d, "committed")
    BY <1>1, <1>3 DEF CompleteAudit, PendingEvents
  <1>6. c = r.contract
    BY <1>4 DEF Subject, Own
  <1>7. \A v : Half(v, r) => FilesView = Done(v, r)
    <2> SUFFICES ASSUME NEW v, Half(v, r) PROVE FilesView = Done(v, r)
      OBVIOUS
    <2>1. CASE pc[p] = "initComplete"
      BY <1>0, <1>4, <2>1 DEF Records, Half, HalfInit
    <2>2. CASE pc[p] = "startComplete"
      <3>1. r.op = "start" /\ state.active = r.contract
        BY <1>0, <1>2, <1>4, <1>6, <2>2 DEF Records, RecordInPlace, WritesDone, StartTry
      <3> QED
        BY <3>1 DEF Half, HalfStart
    <2>3. CASE pc[p] = "amendComplete"
      <3>1. /\ r.op = "amend" /\ r.after = job[p].ask
            /\ contract[r.contract].budget = job[p].ask
        BY <1>0, <1>2, <1>4, <1>6, <2>3 DEF Records, RecordInPlace
      <3> QED
        BY <1>0, <3>1, AmendDone DEF Half
    <2>4. CASE pc[p] = "closeComplete"
      <3>1. r.op = "close" /\ r.from = "active" /\ state.active = NoContract
        BY <1>0, <1>2, <1>4, <2>4 DEF Records, Closing, WritesDone
      <3> QED
        BY <1>0, <3>1 DEF Half, HalfClose
    <2> QED
      BY <1>1, <2>1, <2>2, <2>3, <2>4
  <1>8. r.op = "start" => state.active = r.contract
    <2>1. r.op = "start" => pc[p] = "startComplete"
      BY <1>0, <1>1, <1>4 DEF Records, Closing
    <2> QED
      BY <1>2, <1>6, <2>1 DEF RecordInPlace, WritesDone, StartTry
  <1>9. "committed" \in Outcomes \ {"pending"}
    BY DEF Outcomes
  <1> QED
    BY <1>0, <1>1, <1>4, <1>5, <1>7, <1>8, <1>9, SettleTold

LEMMA SettlesTold ==
    ASSUME Inductive, Kept, Ledger, NEW p \in Procs, Settles(p)
    PROVE  FilesTold'
  <1> DEFINE e == job[p].event
             r == state.audits[e]
  <1>0. FilesTold /\ state \in StateFile
    BY DEF Ledger, Inductive, TypeOK
  <1>1. CASE InitComplete(p) \/ StartComplete(p) \/ AmendComplete(p) \/ CloseComplete(p)
    BY <1>1, CommitTold
  <1>2. CASE RejectAbort(p) \/ StartCatchAbort(p) \/ RecoverResolve(p)
    <2>1. e \in DOMAIN state.audits /\ UNCHANGED <<contract, baseline>>
      <3>1. pc[p] \in Appended \cup {"resolve"}
        BY <1>2 DEF RejectAbort, StartCatchAbort, RecoverResolve, At, Appended, StartCleanup
      <3> QED
        BY <1>2, <3>1, PendingSubject DEF Inductive, RecordInPlace, RejectAbort, StartCatchAbort,
                                          RecoverResolve
    <2>2. r \in AuditRecord /\ Evidence(r) \in {"applied", "not_applied", "uncertain"}
      BY <1>0, <2>1, AuditAt, EvidenceValues
    <2>3. \/ state' = state
          \/ /\ r.outcome = "pending"
             /\ \/ Evidence(r) = "not_applied" /\ state' = Resolve(state, e, "aborted")
                \/ Evidence(r) = "applied" /\ state' = Resolve(state, e, "reconciled")
      BY <1>2, <2>2 DEF RejectAbort, StartCatchAbort, RecoverResolve, AbortAudit
    <2>4. CASE state' = state
      BY <1>0, <2>1, <2>4, QuietTold DEF files
    <2>5. CASE state' # state
      <3>1. PICK d \in PendingEvents(state), o \in {"aborted", "reconciled"} :
               /\ d = e /\ state' = Resolve(state, d, o)
               /\ o = "aborted" => Evidence(state.audits[d]) = "not_applied"
               /\ o = "reconciled" => Evidence(state.audits[d]) = "applied"
        BY <2>1, <2>3, <2>5 DEF PendingEvents
      <3> QED
        BY <1>0, <2>1, <3>1, JudgedTold
    <2> QED
      BY <2>4, <2>5
  <1> QED
    BY <1>1, <1>2 DEF Settles

-----------------------------------------------------------------------------
(* The steps between: writes of a contract or a baseline, and the pointer.  *)

\* START's writes touch its own candidate, which no pointer names.
LEMMA StartWriteTold ==
    ASSUME Inductive, Kept, Ledger, NEW p \in Procs,
           \/ StartBaseline(p) \/ StartContract(p) \/ StartCatch(p) \/ StartCatchBaseline(p)
    PROVE  FilesTold'
  <1> DEFINE c == job[p].candidate
             e == job[p].event
  <1>0. /\ TypeOK /\ OnePending /\ FilesTold /\ Records(p) /\ Held(p)
        /\ contract \in [Contracts -> ContractFile] /\ baseline \in [Contracts -> BOOLEAN]
        /\ NoContract \notin Contracts
    BY ConstantsAssumption DEF Inductive, Kept, FilesKept, Ledger, TypeOK
  <1>1. /\ pc[p] \in {"startBaseline", "startContract", "startCatch", "startCatchBaseline"}
        /\ pc[p] \in StartTry \cup StartCleanup /\ pc[p] \in Appended
        /\ state' = state
    BY DEF StartBaseline, StartContract, StartCatch, StartCatchBaseline, At, StartTry, StartCleanup,
           Appended
  <1>2. /\ e \in PendingEvents(state) /\ c \in Contracts /\ Own(p).contract = c
    BY <1>1 DEF Inductive, RecordInPlace, WritesDone, Subject, Own
  <1>3. PICK r : r = Own(p) /\ r.op = "start" /\ r.after = job[p].ask /\ r.contract = c
    BY <1>0, <1>1, <1>2 DEF Records
  <1>4. CASE state.active = c \/ state.lastClosed = c
    <2>1. UNCHANGED files
      <3>1. CASE pc[p] = "startBaseline" \/ pc[p] = "startContract"
        <4>1. state.active = NoContract /\ Held(p) /\ contract[c].status # "closed"
          BY <1>0, <3>1 DEF Inductive, WritesDone, Held, StartTry
        <4>2. state.lastClosed = c => contract[c].status = "closed"
          BY <1>0, <1>2 DEF Kept, FilesKept, LatestClosed
        <4> QED
          BY <1>0, <1>2, <1>4, <4>1, <4>2
      <3>2. CASE pc[p] = "startCatch"
        BY <1>1, <1>4, <3>2 DEF StartBaseline, StartContract, StartCatch, StartCatchBaseline, At,
                                MayRemoveArtifacts, files
      <3>3. CASE pc[p] = "startCatchBaseline"
        BY <1>0, <1>4, <3>3 DEF Held
      <3> QED
        BY <1>1, <3>1, <3>2, <3>3
    <2> QED
      BY <1>0, <2>1, QuietTold
  <1>5. CASE state.active # c /\ state.lastClosed # c
    <2>1. /\ \A d \in Contracts \ {c} : contract'[d] = contract[d] /\ baseline'[d] = baseline[d]
          /\ \/ contract' = contract
             \/ contract' = [contract EXCEPT ![c] = NoFile]
             \/ contract' = [contract EXCEPT ![c] = [status |-> "active", budget |-> job[p].ask]]
      BY <1>0, <1>2 DEF StartBaseline, StartContract, StartCatch, StartCatchBaseline
    <2>2. ASSUME NEW v, Half(v, r)
          PROVE  Half(v, r)'
      <3>1. /\ v = OfFiles([contract EXCEPT ![c] = NoFile])
            /\ contract[c] \in {NoFile, [status |-> "active", budget |-> r.after]}
        BY <1>3, <1>5, <2>2 DEF Half, HalfStart
      <3>2. contract'[c] \in {NoFile, [status |-> "active", budget |-> r.after]}
        BY <1>0, <1>2, <1>3, <2>1, <3>1
      <3>3. [contract' EXCEPT ![c] = NoFile] = [contract EXCEPT ![c] = NoFile]
        BY <1>0, <1>2, <2>1
      <3>4. PICK d \in Contracts : d = c
        BY <1>2
      <3>5. HalfStart(v, r)'
        BY <1>1, <1>2, <1>3, <1>5, <3>1, <3>2, <3>3, <3>4 DEF HalfStart, OfFiles
      <3> QED
        BY <1>3, <3>5 DEF Half
    <2>3. Baselined'
      <3>1. PendingEvents(state') = PendingEvents(state)
        BY <1>1
      <3>2. ASSUME NEW d \in Contracts
            PROVE  (Underway(d) \/ (baseline[d] <=> contract[d] # NoFile))'
        <4>1. CASE d = c
          BY <1>1, <1>2, <1>3, <1>5, <4>1 DEF Underway, Own
        <4>2. CASE d # c
          BY <1>0, <1>1, <2>1, <4>2 DEF FilesTold, Baselined, Underway
        <4> QED
          BY <4>1, <4>2
      <3> QED
        BY <3>2 DEF Baselined
    <2>4. PICK d \in PendingEvents(state) : d = e
      BY <1>2
    <2>5. \A v : Half(v, r) => Half(v, r)'
      BY <2>2
    <2>6. r = state.audits[d] /\ state'.audits = state.audits
      BY <1>1, <1>3, <2>4 DEF Own
    <2> QED
      BY <1>0, <2>3, <2>5, <2>6, WriteTold
  <1> QED
    BY <1>4, <1>5

LEMMA AmendWriteTold ==
    ASSUME Inductive, Kept, Ledger, NEW p \in Procs, AmendWrite(p)
    PROVE  FilesTold'
  <1>1. /\ OnePending /\ FilesTold /\ contract \in [Contracts -> ContractFile]
        /\ pc[p] = "amendWrite" /\ pc[p] \in Appended /\ state' = state /\ baseline' = baseline
        /\ contract' = [contract EXCEPT ![job[p].held].budget = job[p].ask]
    BY DEF Inductive, Kept, FilesKept, Ledger, TypeOK, AmendWrite, At, Appended
  <1>2. PICK c \in Contracts : c = job[p].held /\ state.active = c /\ contract[c].status = "active"
    BY <1>1 DEF Inductive, WritesDone
  <1>3. PICK e \in PendingEvents(state) : e = job[p].event
    BY <1>1 DEF Inductive, RecordInPlace
  <1>4. PICK r : r = state.audits[e] /\ r.op = "amend" /\ r.after = job[p].ask /\ r.contract = c
    BY <1>1, <1>2, <1>3 DEF Ledger, Records, Own, Inductive, RecordInPlace, Subject
  <1>5. /\ \A d \in Contracts \ {c} : contract'[d] = contract[d]
        /\ contract'[c] = [contract[c] EXCEPT !.budget = r.after]
        /\ contract' = [contract EXCEPT ![c].budget = r.after]
    BY <1>1, <1>2, <1>4
  <1>6. ASSUME NEW v, Half(v, r)
        PROVE  Half(v, r)'
    <2>1. r.before # r.after /\ v = OfFiles([contract EXCEPT ![c].budget = r.before])
      BY <1>4, <1>6 DEF Half, HalfAmend
    <2>2. contract'[c].status = "active" /\ contract'[c].budget = r.after
      BY <1>1, <1>2, <1>5 DEF ContractFile
    <2>3. [contract' EXCEPT ![c].budget = r.before] = [contract EXCEPT ![c].budget = r.before]
      BY <1>1, <1>5 DEF ContractFile
    <2>4. HalfAmend(v, r)'
      BY <1>1, <1>2, <1>4, <2>1, <2>2, <2>3 DEF HalfAmend, OfFiles
    <2> QED
      BY <1>4, <2>4 DEF Half
  <1>7. Baselined'
    <2> SUFFICES ASSUME NEW d \in Contracts
                 PROVE  (Underway(d) \/ (baseline[d] <=> contract[d] # NoFile))'
      BY DEF Baselined
    <2>1. Underway(d) \/ (baseline[d] <=> contract[d] # NoFile)
      BY <1>1 DEF FilesTold, Baselined
    <2>2. (contract[d] # NoFile) <=> (contract'[d] # NoFile)
      BY <1>1, <1>2, <1>5 DEF NoFile, ContractFile
    <2>3. Underway(d)' <=> Underway(d)
      BY <1>1 DEF Underway
    <2> QED
      BY <1>1, <2>1, <2>2, <2>3
  <1>8. \A v : Half(v, r) => Half(v, r)'
    BY <1>6
  <1> QED
    BY <1>1, <1>4, <1>7, <1>8, WriteTold

LEMMA CloseWriteTold ==
    ASSUME Inductive, Kept, Ledger, NEW p \in Procs, CloseWrite(p)
    PROVE  FilesTold'
  <1>1. /\ OnePending /\ FilesTold /\ contract \in [Contracts -> ContractFile]
        /\ pc[p] = "closeWrite" /\ pc[p] \in Appended /\ state' = state /\ baseline' = baseline
        /\ contract' = [contract EXCEPT ![job[p].held].status = "closed"]
        /\ NoContract \notin Contracts
    BY ConstantsAssumption DEF Inductive, Kept, FilesKept, Ledger, TypeOK, CloseWrite, At, Appended
  <1>2. PICK c \in Contracts : c = job[p].held /\ state.active = c
    BY <1>1 DEF Inductive, WritesDone
  <1>3. PICK e \in PendingEvents(state) : e = job[p].event
    BY <1>1 DEF Inductive, RecordInPlace
  <1>4. PICK r : r = state.audits[e] /\ r.op = "close" /\ r.from = "active" /\ r.contract = c
    BY <1>1, <1>2, <1>3 DEF Ledger, Records, Closing, Own, Inductive, RecordInPlace, Subject
  <1>5. /\ \A d \in Contracts \ {c} : contract'[d] = contract[d]
        /\ contract'[c] = [contract[c] EXCEPT !.status = "closed"]
        /\ contract' = [contract EXCEPT ![c].status = "closed"]
    BY <1>1, <1>2
  <1>6. ASSUME NEW v, Half(v, r)
        PROVE  Half(v, r)'
    <2>1. v = OfFiles([contract EXCEPT ![c].status = "active"])
      BY <1>1, <1>2, <1>4, <1>6 DEF Half, HalfClose
    <2>2. contract'[c].status = "closed"
      BY <1>1, <1>2, <1>5 DEF ContractFile
    <2>3. [contract' EXCEPT ![c].status = "active"] = [contract EXCEPT ![c].status = "active"]
      BY <1>1, <1>5 DEF ContractFile
    <2>4. HalfClose(v, r)'
      BY <1>1, <1>2, <1>4, <2>1, <2>2, <2>3 DEF HalfClose, OfFiles
    <2> QED
      BY <1>4, <2>4 DEF Half
  <1>7. Baselined'
    <2> SUFFICES ASSUME NEW d \in Contracts
                 PROVE  (Underway(d) \/ (baseline[d] <=> contract[d] # NoFile))'
      BY DEF Baselined
    <2>1. Underway(d) \/ (baseline[d] <=> contract[d] # NoFile)
      BY <1>1 DEF FilesTold, Baselined
    <2>2. contract[c] # NoFile
      BY <1>2, ConstantsAssumption DEF Kept, FilesKept, ActiveWritten, NoFile
    <2>3. (contract[d] # NoFile) <=> (contract'[d] # NoFile)
      BY <1>1, <1>2, <1>5, <2>2 DEF NoFile, ContractFile
    <2>4. Underway(d)' <=> Underway(d)
      BY <1>1 DEF Underway
    <2> QED
      BY <1>1, <2>1, <2>3, <2>4
  <1>8. \A v : Half(v, r) => Half(v, r)'
    BY <1>6
  <1> QED
    BY <1>1, <1>4, <1>7, <1>8, WriteTold

LEMMA ActivationTold ==
    ASSUME Inductive, Kept, Ledger, NEW p \in Procs, StartActivate(p)
    PROVE  FilesTold'
  <1>1. /\ OnePending /\ FilesTold /\ contract \in [Contracts -> ContractFile]
        /\ pc[p] = "startActivate" /\ pc[p] \in StartTry /\ pc[p] \in Appended
        /\ NoContract \notin Contracts
    BY ConstantsAssumption
       DEF Inductive, Kept, FilesKept, Ledger, TypeOK, StartActivate, At, StartTry, Appended
  <1>2. CASE state' = state
    BY <1>1, <1>2, QuietTold DEF StartActivate, files
  <1>3. CASE state' # state
    <2>1. PICK c \in Contracts :
             /\ c = job[p].candidate /\ state.active = NoContract
             /\ state'.audits = state.audits /\ state'.lastClosed = state.lastClosed
             /\ state'.phase = "active" /\ state'.active = c
             /\ contract[c].status = "active"
             /\ UNCHANGED <<contract, baseline>>
      BY <1>3, Activates
    <2>2. PICK e \in PendingEvents(state) : e = job[p].event
      BY <1>1 DEF Inductive, RecordInPlace
    <2>3. PICK r : r = state.audits[e] /\ r \in AuditRecord /\ r.op = "start" /\ r.contract = c
      <3>1. Own(p) \in AuditRecord
        BY <2>2, AuditAt DEF Own, Inductive, TypeOK, PendingEvents
      <3> QED
        BY <1>1, <2>1, <2>2, <3>1 DEF Ledger, Records, Own, Inductive, RecordInPlace, Subject
    <2>4. ASSUME NEW v, Half(v, r)
          PROVE  Half(v, r)'
      <3>1. /\ v = OfFiles([contract EXCEPT ![c] = NoFile])
            /\ contract[c] \in {NoFile, [status |-> "active", budget |-> r.after]}
        BY <1>1, <2>1, <2>3, <2>4 DEF Half, HalfStart
      <3>2. contract[c] = [status |-> "active", budget |-> r.after]
        BY <2>1, <3>1 DEF NoFile
      <3>3. Done(v, r) = [v EXCEPT !.phase = "active", !.active = c,
                                   !.files[c] = [status |-> "active", budget |-> r.after]]
        <4>1. Done(v, r) = [v EXCEPT !.phase = "active", !.active = r.contract,
                               !.files[r.contract] = [status |-> "active", budget |-> r.after]]
          BY <2>3, ReplayStepIs, ZenonT(60)
        <4> QED
          BY <2>3, <4>1, Zenon
      <3>4. [[contract EXCEPT ![c] = NoFile] EXCEPT ![c] = [status |-> "active", budget |-> r.after]]
                = contract
        BY <1>1, <3>2
      <3>5. Done(v, r) = View("active", c, state.lastClosed, contract)
        BY <3>1, <3>3, <3>4 DEF OfFiles, View
      <3>6. FilesView' = Done(v, r)
        BY <2>1, <3>5 DEF FilesView, OfFiles
      <3>7. HalfStart(v, r)'
        BY <2>1, <2>3, <3>6 DEF HalfStart
      <3> QED
        BY <2>3, <3>7 DEF Half
    <2>5. Baselined'
      <3> SUFFICES ASSUME NEW d \in Contracts
                   PROVE  (Underway(d) \/ (baseline[d] <=> contract[d] # NoFile))'
        BY DEF Baselined
      <3>1. Underway(d) \/ (baseline[d] <=> contract[d] # NoFile)
        BY <1>1 DEF FilesTold, Baselined
      <3>2. CASE d = c
        <4>1. baseline[c] /\ contract[c] # NoFile
          BY <1>1, <2>1 DEF Inductive, WritesDone, NoFile
        <4> QED
          BY <2>1, <3>2, <4>1
      <3>3. CASE d # c
        <4>1. Underway(d) => Underway(d)'
          BY <2>1, <3>3 DEF Underway, PendingEvents
        <4> QED
          BY <2>1, <3>1, <4>1
      <3> QED
        BY <3>2, <3>3
    <2>6. \A v : Half(v, r) => Half(v, r)'
      BY <2>4
    <2> QED
      BY <1>1, <2>1, <2>3, <2>5, <2>6, WriteTold
  <1> QED
    BY <1>2, <1>3

LEMMA RetirementTold ==
    ASSUME Inductive, Kept, Ledger, NEW p \in Procs, CloseState(p)
    PROVE  FilesTold'
  <1>1. /\ OnePending /\ FilesTold /\ contract \in [Contracts -> ContractFile]
        /\ pc[p] = "closeState" /\ pc[p] \in Appended
        /\ NoContract \notin Contracts
    BY ConstantsAssumption
       DEF Inductive, Kept, FilesKept, Ledger, TypeOK, CloseState, At, Appended
  <1>2. PICK c \in Contracts :
           /\ c = state.active
           /\ state'.audits = state.audits /\ state'.lastClosed = c
           /\ state'.phase = "closed" /\ state'.active = NoContract
           /\ contract[c].status = "closed"
           /\ UNCHANGED <<contract, baseline>>
    BY Retires
  <1>3. PICK e \in PendingEvents(state) : e = job[p].event
    BY <1>1 DEF Inductive, RecordInPlace
  <1>4. PICK r : /\ r = state.audits[e] /\ r \in AuditRecord
                 /\ r.op = "close" /\ r.from = "active" /\ r.contract = c
    <2>1. Own(p) \in AuditRecord
      BY <1>3, AuditAt DEF Own, Inductive, TypeOK, PendingEvents
    <2> QED
      BY <1>1, <1>2, <1>3, <2>1 DEF Ledger, Records, Closing, Own, Inductive, RecordInPlace, Subject
  <1>5. ASSUME NEW v, Half(v, r)
        PROVE  Half(v, r)'
    <2>1. v = OfFiles([contract EXCEPT ![c].status = "active"])
      BY <1>1, <1>2, <1>4, <1>5 DEF Half, HalfClose
    <2>2. Done(v, r) = [v EXCEPT !.phase = "closed", !.active = NoContract, !.lastClosed = c,
                                 !.files[c].status = "closed"]
      <3>1. Done(v, r) = [v EXCEPT !.phase = "closed", !.active = NoContract,
                             !.lastClosed = r.contract,
                             !.files[r.contract].status = "closed"]
        BY <1>4, ReplayStepIs, ZenonT(60)
      <3> QED
        BY <1>4, <3>1, Zenon
    <2>3. [[contract EXCEPT ![c].status = "active"] EXCEPT ![c].status = "closed"] = contract
      BY <1>1, <1>2 DEF ContractFile
    <2>4. Done(v, r) = View("closed", NoContract, c, contract)
      BY <2>1, <2>2, <2>3 DEF OfFiles, View
    <2>5. FilesView' = Done(v, r)
      BY <1>2, <2>4 DEF FilesView, OfFiles
    <2>6. HalfClose(v, r)'
      BY <1>2, <1>4, <2>5 DEF HalfClose
    <2> QED
      BY <1>4, <2>6 DEF Half
  <1>6. Baselined'
    <2> SUFFICES ASSUME NEW d \in Contracts
                 PROVE  (Underway(d) \/ (baseline[d] <=> contract[d] # NoFile))'
      BY DEF Baselined
    <2>1. Underway(d) \/ (baseline[d] <=> contract[d] # NoFile)
      BY <1>1 DEF FilesTold, Baselined
    <2>2. Underway(d) => Underway(d)'
      BY <1>1, <1>2 DEF Underway, PendingEvents
    <2> QED
      BY <1>2, <2>1, <2>2
  <1>7. \A v : Half(v, r) => Half(v, r)'
    BY <1>5
  <1> QED
    BY <1>1, <1>2, <1>4, <1>6, <1>7, WriteTold

LEMMA FilesStayTold ==
    ASSUME Inductive, Kept, Ledger, NEW p \in Procs, Act(p)
    PROVE  FilesTold'
  <1>1. UNCHANGED files => FilesTold'
    BY QuietTold DEF Ledger
  <1>2. CASE Writes(p)
    BY <1>2, StartWriteTold, AmendWriteTold, CloseWriteTold DEF Writes
  <1> QED
    BY <1>1, <1>2, QuietOtherwise, AppendsTold, SettlesTold, ActivationTold, RetirementTold
       DEF PointerMoved

-----------------------------------------------------------------------------
(* What a command knows of its own record.                                 *)

Recording == StartTry \cup StartCleanup \cup Closing \cup
             {"amendPersist", "amendWrite", "amendComplete", "initComplete", "startPersist",
              "rejectClose", "rejectPersist"}

LEMMA NothingRecorded ==
    ASSUME NEW q \in Procs, pc'[q] \notin Recording
    PROVE  Records(q)'
  BY DEF Records, Recording

LEMMA OthersRecords ==
    ASSUME Inductive, Ledger, NEW p \in Procs, Act(p), NEW q \in Procs \ {p}
    PROVE  Records(q)'
  <1>1. pc'[q] = pc[q] /\ job'[q] = job[q] /\ (pc[p] \notin Locked => UNCHANGED files)
    BY MovesAlone DEF Inductive
  <1>2. CASE pc[q] \in Locked
    <2>1. pc[p] \notin Locked
      BY <1>2 DEF Inductive, StateLockExcludes
    <2>2. Records(q) /\ UNCHANGED <<state, contract, baseline>>
      BY <1>1, <2>1 DEF Ledger, files
    <2> QED
      BY <1>1, <2>2 DEF Records, Own, ArtifactsAbsent
  <1>3. CASE pc[q] \notin Locked
    <2>1. pc[q] \notin Recording
      BY <1>3 DEF Recording, Closing, Locked, Writing
    <2> QED
      BY <1>1, <2>1, NothingRecorded
  <1> QED
    BY <1>2, <1>3

\* A command that appends a record knows it at its next label.
LEMMA AppenderRecords ==
    ASSUME Inductive, NEW p \in Procs, Appends(p)
    PROVE  Records(p)'
  <1>0. /\ TypeOK /\ state \in StateFile /\ pc \in [Procs -> PCs] /\ job \in [Procs -> JobRecord]
        /\ state.audits \in Seq(AuditRecord) /\ Len(state.audits) \in Nat
    BY DEF Inductive, TypeOK, StateFile
  <1>1. ASSUME NEW s \in StateFile, s.audits = state.audits, NEW r, state' = Append1(s, r),
               job' = [job EXCEPT ![p].event = Len(state.audits) + 1]
        PROVE  Own(p)' = r /\ job'[p].ask = job[p].ask
    BY <1>0, <1>1 DEF Own, Append1, StateFile, JobRecord
  <1>2. ASSUME NEW r, PersistAudit(p, r)
        PROVE  Own(p)' = r /\ job'[p].ask = job[p].ask
    BY <1>0, <1>1, <1>2 DEF PersistAudit
  <1>3. CASE StartPersist(p)
    <2>1. PICK r : /\ PersistAudit(p, r)
                   /\ r = NewAudit("start", job[p].candidate, state.phase, "active", NoBudget, job[p].ask)
      BY <1>3 DEF StartPersist
    <2>2. pc'[p] = "startBaseline" /\ r.op = "start" /\ r.after = job[p].ask
      BY <1>0, <1>3, <2>1 DEF StartPersist, Goto, NewAudit
    <2> QED
      BY <1>2, <2>1, <2>2 DEF Records, StartTry, Closing
  <1>4. CASE AmendPersist(p)
    <2>1. PICK r : /\ PersistAudit(p, r)
                   /\ r = NewAudit("amend", job[p].held, "active", "active",
                                   contract[job[p].held].budget, job[p].ask)
      BY <1>4 DEF AmendPersist
    <2>2. pc'[p] = "amendWrite" /\ r.op = "amend" /\ r.after = job[p].ask
      BY <1>0, <1>4, <2>1 DEF AmendPersist, Goto, NewAudit
    <2> QED
      BY <1>2, <2>1, <2>2 DEF Records, StartTry, StartCleanup, Closing
  <1>5. CASE ClosePersist(p)
    <2> DEFINE b == contract[job[p].held].budget
    <2>1. PICK r : PersistAudit(p, r) /\ r = NewAudit("close", job[p].held, "active", "closed", b, b)
      BY <1>5 DEF ClosePersist
    <2>2. pc'[p] = "closeWrite" /\ r.op = "close" /\ r.from = "active"
      BY <1>0, <1>5, <2>1 DEF ClosePersist, Goto, NewAudit
    <2> QED
      BY <1>2, <2>1, <2>2 DEF Records, StartTry, StartCleanup, Closing
  <1>6. CASE InitWrite(p)
    <2>1. PICK s, r : /\ s = Initialized(state) /\ state' = Append1(s, r)
                      /\ r = NewAudit("init", NoContract, "absent", "initialized", NoBudget, NoBudget)
      BY <1>6 DEF InitWrite
    <2>2. s \in StateFile /\ s.audits = state.audits
      BY <1>0, <2>1 DEF Initialized, StateFile, Phases
    <2>3. pc'[p] = "initComplete" /\ r.op = "init"
      BY <1>0, <1>6, <2>1 DEF InitWrite, Goto, NewAudit
    <2>4. Own(p)' = r
      BY <1>1, <1>6, <2>1, <2>2 DEF InitWrite
    <2> QED
      BY <2>3, <2>4 DEF Records, StartTry, StartCleanup, Closing
  <1>7. CASE RejectPersist(p)
    <2>1. pc'[p] \notin Recording
      BY <1>0, <1>7 DEF RejectPersist, Goto, Recording, StartTry, StartCleanup, Closing
    <2> QED
      BY <2>1, NothingRecorded
  <1> QED
    BY <1>3, <1>4, <1>5, <1>6, <1>7 DEF Appends

\* What the mover knows at its next label.
LEMMA MoverRecords ==
    ASSUME Inductive, Kept, Ledger, NEW p \in Procs, Act(p)
    PROVE  Records(p)'
  <1> DEFINE c == job[p].candidate
             h == job[p].held
  <1>0. /\ TypeOK /\ Records(p) /\ pc \in [Procs -> PCs]
        /\ job \in [Procs -> JobRecord] /\ contract \in [Contracts -> ContractFile]
    BY DEF Inductive, Ledger, TypeOK
  <1> USE <1>0
  <1>1. CASE \/ Commands(p) \/ AcquireStateLock(p) \/ StateLockBusy(p) \/ ContractLockBusy(p)
             \/ Drop(p) \/ Unlock(p) \/ Crash(p)
    <2>1. pc'[p] \in {"recoverLock", "ready", "locked", "recover", "idle", "unlock"}
      BY <1>1 DEF Commands, BeginInit, BeginStart, BeginAmend, BeginClose, Begin,
                  AcquireStateLock, StateLockBusy, ContractLockBusy, Drop, Unlock, Crash, Goto
    <2> QED
      BY <2>1, NothingRecorded DEF Recording, StartTry, StartCleanup, Closing
  <1>2. CASE Recover(p) \/ Settles(p)
    <2>1. pc'[p] \in {"resolve", "drop", "recovered", "recoverUnlock", "recover", "ready", "unlock"}
      BY <1>2 DEF Recover, RecoverNext, RecoverResolve, RecoverLeave, RecoverUnlock, Settles,
                  InitComplete, StartComplete, AmendComplete, CloseComplete, RejectAbort,
                  StartCatchAbort, Goto
    <2> QED
      BY <2>1, NothingRecorded DEF Recording, StartTry, StartCleanup, Closing
  <1>3. CASE StartCoherence(p) \/ StartCoherenceDone(p) \/ StartReturn(p) \/ CloseEnter(p)
    <2>1. pc'[p] \in {"coherenceDone", "coherent", "unlock", "drop", "closePersist"}
      BY <1>3 DEF StartCoherence, StartCoherenceDone, StartReturn, CloseEnter, EnterContract, Goto
    <2> QED
      BY <2>1, NothingRecorded DEF Recording, StartTry, StartCleanup, Closing
  <1>4. CASE Decide(p)
    <2>1. PICK b \in Asks(job[p].op), d \in Fresh(job[p].op) :
             job' = [job EXCEPT ![p].snapshot = state, ![p].ask = b, ![p].candidate = d]
      BY <1>4 DEF Decide
    <2>2. job'[p].op = job[p].op
      BY <2>1 DEF JobRecord
    <2> DEFINE l == IF NoPendingAudits THEN Branch(p) ELSE "unlock"
    <2>3. pc'[p] = l
      BY <1>4 DEF Decide, Goto
    <2>4. /\ l \in Recording => l = "rejectClose"
          /\ l = "rejectClose" => job[p].op # "start"
      BY DEF Branch, Recording, StartTry, StartCleanup, Closing
    <2> HIDE DEF l
    <2> QED
      BY <2>2, <2>3, <2>4, NothingRecorded DEF Records, StartTry, StartCleanup, Closing
  <1>5. CASE StartAdmit(p) \/ StartLose(p)
    <2>1. /\ job' = [job EXCEPT ![p].held = c] /\ UNCHANGED <<contract, baseline>>
          /\ \/ ArtifactsAbsent(c) /\ pc'[p] \in {"startPersist", "rejectPersist"}
             \/ pc'[p] = "drop"
      BY <1>5 DEF StartAdmit, StartLose, EnterContract, Goto, files
    <2>2. job'[p].held = c /\ job'[p].candidate = c
      BY <2>1 DEF JobRecord
    <2>3. CASE pc'[p] = "drop"
      BY <2>3, NothingRecorded DEF Recording, StartTry, StartCleanup, Closing
    <2>4. CASE pc'[p] \in {"startPersist", "rejectPersist"}
      BY <2>1, <2>2, <2>4 DEF Records, ArtifactsAbsent, StartTry, StartCleanup, Closing
    <2> QED
      BY <2>1, <2>3, <2>4
  <1>6. CASE CloseReject(p)
    <2>1. /\ pc[p] = "rejectClose" /\ pc'[p] \in {"rejectPersist", "drop"}
          /\ job'[p].op = job[p].op
      BY <1>6 DEF CloseReject, EnterContract, Goto, At, JobRecord
    <2> QED
      BY <2>1 DEF Records, StartTry, StartCleanup, Closing
  <1>7. CASE AmendEnter(p)
    <2>1. /\ job' = [job EXCEPT ![p].held = Pointed(state)] /\ contract' = contract
          /\ \/ contract[Pointed(state)].budget # job[p].ask /\ pc'[p] = "amendPersist"
             \/ pc'[p] = "drop"
      BY <1>7 DEF AmendEnter, EnterContract, Goto, files
    <2>2. job'[p].held = Pointed(state) /\ job'[p].ask = job[p].ask
      BY <2>1 DEF JobRecord
    <2> QED
      BY <2>1, <2>2 DEF Records, StartTry, StartCleanup, Closing
  <1>8. CASE Appends(p)
    BY <1>8, AppenderRecords
  <1>9. CASE WriteFails(p)
    <2>1. CASE pc[p] \in StartTry
      BY <1>9, <2>1 DEF WriteFails, Goto, files, Records, Own, StartTry, StartCleanup, Closing
    <2>2. CASE pc[p] \notin StartTry
      <3>1. pc'[p] = "drop"
        BY <1>9, <2>2 DEF WriteFails, Goto
      <3> QED
        BY <3>1, NothingRecorded DEF Recording, StartTry, StartCleanup, Closing
    <2> QED
      BY <2>1, <2>2
  <1>10. CASE \/ StartBaseline(p) \/ StartContract(p) \/ StartActivate(p) \/ StartCatch(p)
              \/ StartCatchBaseline(p)
    <2>1. /\ pc[p] \in StartTry \cup StartCleanup /\ job' = job
          /\ pc'[p] \in {"startContract", "startActivate", "startComplete", "startCatch",
                         "startCatchBaseline", "startCatchAbort", "drop"}
      BY <1>10 DEF StartBaseline, StartContract, StartActivate, StartCatch, StartCatchBaseline, At,
                   Goto, StartTry, StartCleanup
    <2>2. state'.audits = state.audits
      BY <1>10, Activates DEF StartBaseline, StartContract, StartCatch, StartCatchBaseline
    <2> QED
      BY <2>1, <2>2 DEF Records, Own, StartTry, StartCleanup, Closing
  <1>11. CASE AmendWrite(p)
    <2>1. /\ pc[p] = "amendWrite" /\ pc'[p] = "amendComplete" /\ UNCHANGED <<state, job>>
          /\ contract' = [contract EXCEPT ![h].budget = job[p].ask]
      BY <1>11 DEF AmendWrite, At, Goto
    <2>2. PICK d \in Contracts : d = h
      BY <2>1 DEF Inductive, WritesDone
    <2>3. contract'[h].budget = job[p].ask
      BY <2>1, <2>2 DEF ContractFile
    <2> QED
      BY <2>1, <2>3 DEF Records, Own, StartTry, StartCleanup, Closing
  <1>12. CASE CloseWrite(p) \/ CloseRelease(p) \/ CloseState(p)
    <2>1. /\ pc[p] \in Closing /\ job'[p].event = job[p].event
          /\ pc'[p] \in {"closeRelease", "closeState", "closeComplete"}
      BY <1>12 DEF CloseWrite, CloseRelease, CloseState, At, Goto, Closing, JobRecord
    <2>2. state'.audits = state.audits
      BY <1>12, Retires DEF CloseWrite, CloseRelease, files
    <2> QED
      BY <2>1, <2>2 DEF Records, Own, StartTry, StartCleanup, Closing
  <1> QED
    BY <1>1, <1>2, <1>3, <1>4, <1>5, <1>6, <1>7, <1>8, <1>9, <1>10, <1>11, <1>12
       DEF Act, Fault, Step, Reject, Start, Amend, Close, Appends, Settles

-----------------------------------------------------------------------------
(* The theorem.                                                            *)

LEMMA InitLedger == Init => Ledger
  <1> SUFFICES ASSUME Init PROVE Ledger
    OBVIOUS
  <1>1. PendingEvents(state) = {} /\ state.audits = << >>
    BY DEF Init, EmptyState, PendingEvents
  <1>2. FilesView = FreshView
    BY DEF Init, EmptyState, FilesView, OfFiles, FreshView, View
  <1>3. Told
    BY <1>1, <1>2, EmptyView, EmptyTold DEF Told, Explains
  <1>4. TailPending /\ Baselined
    BY <1>1 DEF TailPending, Baselined, Init
  <1>5. \A p \in Procs : Records(p)
    BY DEF Init, Records, StartTry, StartCleanup, Closing
  <1> QED
    BY <1>3, <1>4, <1>5 DEF Ledger, FilesTold

LEMMA LedgerStep ==
    ASSUME Inductive, Kept, Ledger, [Next]_vars
    PROVE  Ledger'
  <1>1. CASE UNCHANGED vars \/ RecoverStateLock
    <2>1. UNCHANGED <<files, pc, job>>
      BY <1>1 DEF vars, RecoverStateLock, files
    <2>2. FilesTold'
      BY <2>1, QuietTold DEF Ledger
    <2>3. \A p \in Procs : Records(p)'
      BY <2>1 DEF Ledger, Records, Own, ArtifactsAbsent, files
    <2> QED
      BY <2>2, <2>3 DEF Ledger
  <1>2. ASSUME NEW p \in Procs, Act(p)
        PROVE  Ledger'
    BY <1>2, FilesStayTold, MoverRecords, OthersRecords DEF Ledger
  <1> QED
    BY <1>1, <1>2 DEF Next, Act

\* Whenever no record is pending, the audit history replayed gives the pointers,
\* every contract and every baseline: no command, failure, crash or recovery
\* does a thing it does not record, or records a thing it has not done.
THEOREM LedgerExplains == Spec => []LedgerExplainsFiles
  <1>1. Inductive /\ Ledger => LedgerExplainsFiles
    <2> SUFFICES ASSUME Inductive, Ledger, PendingEvents(state) = {}
                 PROVE  LET view == Replay(state.audits)
                        IN  /\ view.phase = state.phase
                            /\ view.active = state.active
                            /\ view.lastClosed = state.lastClosed
                            /\ view.files = contract
                            /\ \A c \in Contracts : baseline[c] <=> contract[c] # NoFile
      BY DEF LedgerExplainsFiles, HasPending
    <2>1. state.audits \in Seq(AuditRecord) /\ \E v : ViewOf(v, state.audits)
      BY DEF Inductive, TypeOK, StateFile, Ledger, FilesTold, Told
    <2>2. ViewOf(Replay(state.audits), state.audits)
      BY <2>1, ReplayTells
    <2>3. Replay(state.audits) = FilesView
      BY <2>2 DEF Ledger, FilesTold, Told, Explains
    <2>4. \A c \in Contracts : baseline[c] <=> contract[c] # NoFile
      BY DEF Ledger, FilesTold, Baselined, Underway
    <2> QED
      BY <2>3, <2>4 DEF FilesView, OfFiles, View
  <1>2. Init => Ledger
    BY InitLedger
  <1>3. Inductive /\ Kept /\ Ledger /\ [Next]_vars => Ledger'
    BY LedgerStep
  <1> QED
    BY <1>1, <1>2, <1>3, KeptInvariant, PTL DEF Spec
=============================================================================
