-------------------------- MODULE ExecutionEnvelope --------------------------
(***************************************************************************)
(* One contract file and the operations that rewrite it under the contract *)
(* lock: an execution envelope attached, satisfaction evidence submitted by *)
(* CHECK, a material decision evaluated and recorded, AMEND and CLOSE.      *)
(* CHECK takes no lifecycle lock: it reads the contract, decides, and only  *)
(* then enters the contract lock, where others may have been meanwhile.     *)
(***************************************************************************)
EXTENDS ExecutionGate

CONSTANTS
    Procs,         \* processes that use the contract
    Free,          \* a contract lock that does not exist
    Stale,         \* a contract lock whose owner died: nothing removes it
    Proposals,     \* material decisions that may be proposed
    Submissions,   \* evidence one CHECK may submit
    Authorities,   \* authorities an envelope may declare
    Scopes,        \* the path and budget scope AMEND changes
    None,          \* no envelope in the contract, nothing in a process's local
    MaxFaults      \* bound: failed writes and crashes of a behaviour

States == {"OPEN", "CONTRACT_SATISFIED"}
Verdicts == {"APPROVE", "REDUCE", "REPLACE", "DEFER", "BLOCK", "ESCALATE"}
Entry == [proposal : Proposals,
          outcome : [kind : {"GOVERNANCE"}, verdict : Verdicts, amount : Nat,
                     value : Values \cup {NoValue}]]
Envelope == [authority : Authorities, state : States,
             evidence : [Criteria -> SUBSET Items], ledger : Seq(Entry)]
ContractFile == [status : {"active", "closed"}, scope : Scopes, envelope : Envelope \cup {None}]

\* What normalizeExecutionEnvelope lets into an envelope's authority.
NormalizedAuthority(authority) ==
    /\ \A k \in NumericKinds : authority[k].max \in Nat
    /\ \A k \in AllowlistKinds : authority[k].allowed \subseteq Values

ASSUME EnvelopeAssumption ==
    /\ Free \notin Procs
    /\ Stale \notin Procs
    /\ Free # Stale
    /\ Proposals \subseteq Proposal
    /\ Submissions \subseteq [Criteria -> SUBSET Items]
    /\ \A a \in Authorities : NormalizedAuthority(a)
    /\ None \notin Envelope
    /\ MaxFaults \in Nat

VARIABLES
    contract,    \* contracts/<id>.json
    lock,        \* owner of contracts/<id>.json.lock
    pc, job,     \* the processes and their locals
    faults       \* failed writes and crashes so far

vars == <<contract, lock, pc, job, faults>>

Nothing == [c \in Criteria |-> {}]

\* A process's locals: what it asks, the satisfaction CHECK computed from the
\* copy it read without lock, the contract read under the lock, the answer.
NoJob == [op |-> "none", authority |-> None, evidence |-> Nothing, state |-> "OPEN",
          proposal |-> None, scope |-> None, current |-> None,
          answer |-> NonMaterial]

FreshEnvelope(authority) ==
    [authority |-> authority, state |-> "OPEN", evidence |-> Nothing, ledger |-> <<>>]

\* START writes the contract with the envelope of its request, or without one.
Init ==
    /\ \E envelope \in {None} \cup {FreshEnvelope(a) : a \in Authorities},
          scope \in Scopes :
          contract = [status |-> "active", scope |-> scope, envelope |-> envelope]
    /\ lock = Free
    /\ pc = [p \in Procs |-> "idle"]
    /\ job = [p \in Procs |-> NoJob]
    /\ faults = 0

-----------------------------------------------------------------------------

At(p, label) == pc[p] = label
Goto(p, label) == pc' = [pc EXCEPT ![p] = label]
Begin(p, locals) ==
    /\ At(p, "idle")
    /\ job' = [job EXCEPT ![p] = locals]
    /\ Goto(p, "enter")
    /\ UNCHANGED <<contract, lock, faults>>

\* writeExecutionEnvelopeInPlace refuses on the caller's copy already.
BeginAttach(p) ==
    /\ contract.envelope = None
    /\ \E a \in Authorities : Begin(p, [NoJob EXCEPT !.op = "attach", !.authority = a])

\* CHECK --satisfaction-evidence-json: the contract is read, found active, and
\* the new satisfaction record computed (applySatisfactionEvidence).
BeginCheck(p) ==
    /\ contract.status = "active"
    /\ contract.envelope # None
    /\ \E submission \in Submissions :
          LET evidence == MergeEvidence(contract.envelope.evidence, submission)
          IN  Begin(p, [NoJob EXCEPT !.op = "check", !.evidence = evidence,
                           !.state = IF Complete(evidence) THEN "CONTRACT_SATISFIED" ELSE "OPEN"])

BeginPropose(p) ==
    \E proposal \in Proposals : Begin(p, [NoJob EXCEPT !.op = "propose", !.proposal = proposal])

BeginAmend(p) == \E s \in Scopes : Begin(p, [NoJob EXCEPT !.op = "amend", !.scope = s])

BeginClose(p) == Begin(p, [NoJob EXCEPT !.op = "close"])

\* A lock file that is overwritten.
MayEnter_Anyway == TRUE
\* 'wx'
MayEnter == lock = Free

\* withContractFileLock, and the read every operation makes under it.
Enter(p) ==
    /\ At(p, "enter")
    /\ MayEnter
    /\ lock' = p
    /\ job' = [job EXCEPT ![p].current = contract]
    /\ Goto(p, "decide")
    /\ UNCHANGED <<contract, faults>>

EnterFails(p) ==
    /\ At(p, "enter")
    /\ lock # Free
    /\ Goto(p, "idle")
    /\ job' = [job EXCEPT ![p] = NoJob]
    /\ UNCHANGED <<contract, lock, faults>>

\* The write of a contract derived from the one read; it may fail.
Write(p, next) ==
    /\ contract' = next
    /\ Goto(p, "leave")
    /\ UNCHANGED <<lock, faults>>

\* The operation is over with an answer, or without one.
Answer(p, proposal, answer) ==
    job' = [job EXCEPT ![p] = [NoJob EXCEPT !.proposal = proposal, !.answer = answer]]
Silent(p) == Answer(p, None, NonMaterial)

Refuse(p) ==
    /\ Goto(p, "leave")
    /\ Silent(p)
    /\ UNCHANGED <<contract, lock, faults>>

Attach(p) ==
    LET current == job[p].current
    IN  /\ At(p, "decide")
        /\ job[p].op = "attach"
        /\ IF current.envelope # None THEN Refuse(p)
           ELSE /\ Write(p, [current EXCEPT !.envelope = FreshEnvelope(job[p].authority)])
                /\ Silent(p)

\* Satisfaction as the caller's older copy had it.
MergedState_Submitted(envelope, evidence, submitted) == submitted
\* Once satisfied always satisfied; otherwise decided by the merged evidence.
MergedState(envelope, evidence, submitted) ==
    IF envelope.state = "CONTRACT_SATISFIED" \/ Complete(evidence)
    THEN "CONTRACT_SATISFIED" ELSE "OPEN"

\* Evidence as the caller's older copy had it.
MergedEvidence_CallerWins(envelope, evidence) == evidence
MergedEvidence(envelope, evidence) == MergeEvidence(envelope.evidence, evidence)

\* writeSatisfactionRecordInPlace: OPEN is refused over a satisfied contract,
\* and evidence is merged with what the file holds by now.
Submit(p) ==
    LET current == job[p].current
        envelope == current.envelope
        evidence == MergedEvidence(envelope, job[p].evidence)
    IN  /\ At(p, "decide")
        /\ job[p].op = "check"
        /\ IF envelope.state = "CONTRACT_SATISFIED" /\ job[p].state = "OPEN" THEN Refuse(p)
           ELSE /\ Write(p, [current EXCEPT
                       !.envelope.evidence = evidence,
                       !.envelope.state = MergedState(envelope, evidence, job[p].state)])
                /\ Silent(p)

Entries(envelope, id) ==
    {i \in DOMAIN envelope.ledger : envelope.ledger[i].proposal.id = id}

\* A ledger that takes a decision each time it is asked.
Fresh_Always(envelope, proposal) == TRUE
Fresh(envelope, proposal) == Entries(envelope, proposal.id) = {}

\* A ledger that takes any answer.
Records_AnyAnswer(envelope, proposal, answer) == Fresh(envelope, proposal)
Records(envelope, proposal, answer) ==
    Fresh(envelope, proposal) /\ answer.kind = "GOVERNANCE"

\* evaluateAndRecordMaterialDecisionInPlace: an identifier reused for another
\* proposal is invalid; the gate is asked each time; a governance outcome is
\* recorded the first time.
Propose(p) ==
    LET current == job[p].current
        envelope == current.envelope
        proposal == job[p].proposal
        conflict == \E i \in Entries(envelope, proposal.id) :
                       envelope.ledger[i].proposal # proposal
        answer == IF conflict THEN InvalidProposal ELSE Evaluate(envelope, proposal)
    IN  /\ At(p, "decide")
        /\ job[p].op = "propose"
        /\ IF envelope = None THEN Refuse(p)
           ELSE /\ Write(p, IF Records(envelope, proposal, answer)
                            THEN [current EXCEPT !.envelope.ledger =
                                     Append(@, [proposal |-> proposal, outcome |-> answer])]
                            ELSE contract)
                /\ Answer(p, proposal, answer)

Amend(p) ==
    LET current == job[p].current
    IN  /\ At(p, "decide")
        /\ job[p].op = "amend"
        /\ IF current.status # "active" \/ current.scope = job[p].scope THEN Refuse(p)
           ELSE Write(p, [current EXCEPT !.scope = job[p].scope]) /\ Silent(p)

Close(p) ==
    LET current == job[p].current
    IN  /\ At(p, "decide")
        /\ job[p].op = "close"
        /\ IF current.status # "active" THEN Refuse(p)
           ELSE Write(p, [current EXCEPT !.status = "closed"]) /\ Silent(p)

Leave(p) ==
    /\ At(p, "leave")
    /\ lock' = Free
    /\ Goto(p, "idle")
    /\ job' = [job EXCEPT ![p] = NoJob]
    /\ UNCHANGED <<contract, faults>>

\* The write throws: the file is as it was and nothing is answered.
WriteFails(p) ==
    /\ At(p, "decide")
    /\ faults < MaxFaults
    /\ faults' = faults + 1
    /\ Goto(p, "leave")
    /\ Silent(p)
    /\ UNCHANGED <<contract, lock>>

\* The process dies; its lock file stays for good.
Crash(p) ==
    /\ ~At(p, "idle")
    /\ faults < MaxFaults
    /\ faults' = faults + 1
    /\ lock' = IF lock = p THEN Stale ELSE lock
    /\ Goto(p, "idle")
    /\ job' = [job EXCEPT ![p] = NoJob]
    /\ UNCHANGED contract

Decide(p) == Attach(p) \/ Submit(p) \/ Propose(p) \/ Amend(p) \/ Close(p)

Next == \E p \in Procs :
            \/ BeginAttach(p) \/ BeginCheck(p) \/ BeginPropose(p) \/ BeginAmend(p) \/ BeginClose(p)
            \/ Enter(p) \/ EnterFails(p) \/ Decide(p) \/ Leave(p)
            \/ WriteFails(p) \/ Crash(p)

Spec == Init /\ [][Next]_vars

-----------------------------------------------------------------------------
(* Properties.                                                             *)

Operations == {"attach", "check", "propose", "amend", "close"}
Job == [op : Operations \cup {"none"}, authority : Authorities \cup {None},
        evidence : [Criteria -> SUBSET Items], state : States,
        proposal : Proposals \cup {None}, scope : Scopes \cup {None},
        current : ContractFile \cup {None},
        answer : [kind : {"GOVERNANCE", "NON_MATERIAL", "INVALID_PROPOSAL"},
                  verdict : Verdicts \cup {"NONE"}, amount : Nat,
                  value : Values \cup {NoValue}]]

\* The contract file keeps its shape: above all, nothing that is not a decision
\* the gate governs enters the ledger.
TypeOK ==
    /\ contract \in ContractFile
    /\ lock \in Procs \cup {Free, Stale}
    /\ pc \in [Procs -> {"idle", "enter", "decide", "leave"}]
    /\ job \in [Procs -> Job]
    /\ faults \in 0..MaxFaults

\* CONTRACT_SATISFIED is exposed exactly when every criterion has its evidence,
\* however the CHECKs that brought it overlapped (FR-016 of specs/014).
SatisfiedIffComplete ==
    contract.envelope # None =>
        (contract.envelope.state = "CONTRACT_SATISFIED" <=> Complete(contract.envelope.evidence))

\* Every decision on record grants at most what the envelope declares for its
\* kind, whatever the satisfaction was when it was taken (FR-008, FR-013).
LedgerWithinAuthority ==
    contract.envelope # None =>
        \A i \in DOMAIN contract.envelope.ledger :
            WithinAuthority(contract.envelope.authority,
                            contract.envelope.ledger[i].proposal,
                            contract.envelope.ledger[i].outcome)

\* What a proposal would be granted never grows again while the contract lives:
\* evidence, records, AMEND and CLOSE only take grants away.
GrantsOnlyShrink ==
    [][contract.envelope # None =>
          \A p \in Proposals :
              LET before == Evaluate(contract.envelope, p)
                  after == Evaluate(contract'.envelope, p)
              IN  /\ GrantedAmount(p, after) <= GrantedAmount(p, before)
                  /\ GrantedValues(p, after) \subseteq GrantedValues(p, before)]_vars

\* A governance outcome is answered only for a proposal that is on record under
\* its identifier, and no identifier is on record twice (FR-018).
AnsweredIsRecorded ==
    /\ \A p \in Procs :
          At(p, "leave") /\ job[p].answer.kind = "GOVERNANCE" =>
              /\ contract.envelope # None
              /\ \E i \in Entries(contract.envelope, job[p].proposal.id) :
                    contract.envelope.ledger[i].proposal = job[p].proposal
    /\ contract.envelope # None =>
          \A i, j \in DOMAIN contract.envelope.ledger :
              contract.envelope.ledger[i].proposal.id = contract.envelope.ledger[j].proposal.id
                  => i = j

\* While the contract is open, a proposal already on record is answered as it
\* was recorded: "Identical normalized identity replays its result", in
\* specs/014's data-model.md:43.
ReplayReturnsRecorded ==
    \A p \in Procs :
        /\ At(p, "leave")
        /\ job[p].answer.kind = "GOVERNANCE"
        /\ contract.envelope.state = "OPEN"
        => \A i \in Entries(contract.envelope, job[p].proposal.id) :
              contract.envelope.ledger[i].outcome = job[p].answer

\* Each operation takes effect at once on the contract as it then is: no write
\* undoes another's, although CHECK decides on a copy it read before the lock.
Abstract == INSTANCE EnvelopeAbstract
RefinesAbstract == Abstract!AbsSpec

-----------------------------------------------------------------------------
(* The inductive invariant behind the properties above.                     *)

\* Whoever is past the lock holds it, so the copy it decides on is the file.
Holds ==
    \A p \in Procs :
        /\ pc[p] \in {"decide", "leave"} => lock = p
        /\ At(p, "decide") => job[p].current = contract

\* What a CHECK computed before the lock is evidence since written, or its own.
Grounded(p) ==
    /\ contract.envelope # None
    /\ job[p].state = "CONTRACT_SATISFIED" <=> Complete(job[p].evidence)
    /\ \E submission \in Submissions :
          \A c \in Criteria :
              /\ job[p].evidence[c] \subseteq contract.envelope.evidence[c] \cup submission[c]
              /\ submission[c] \subseteq job[p].evidence[c]

Wants ==
    \A p \in Procs : pc[p] \in {"enter", "decide"} =>
        /\ job[p].op # "none"
        /\ job[p].op = "attach" => job[p].authority \in Authorities
        /\ job[p].op = "check" => Grounded(p)
        /\ job[p].op = "propose" => job[p].proposal \in Proposals
        /\ job[p].op = "amend" => job[p].scope \in Scopes

\* The properties are not inductive alone: a submission must still be true of
\* the file when it is written.
Inductive ==
    /\ TypeOK
    /\ Holds
    /\ Wants
    /\ SatisfiedIffComplete
    /\ LedgerWithinAuthority
    /\ AnsweredIsRecorded

=============================================================================
