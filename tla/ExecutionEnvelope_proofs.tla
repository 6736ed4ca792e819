---------------------- MODULE ExecutionEnvelope_proofs ----------------------
(***************************************************************************)
(* The gate and the envelope it reads, for any criteria, authority,         *)
(* proposals and number of processes.                                       *)
(***************************************************************************)
EXTENDS ExecutionEnvelope, TLAPS

(* The gate: what its outcomes are, and what they can grant.               *)

LEMMA NumericOutcome ==
    ASSUME NEW p \in Proposal, p.kind \in NumericKinds, ValidNumeric(p),
           NEW authority, authority.max \in Nat,
           NEW outcome, outcome = EvaluateNumeric(p, authority)
    PROVE  /\ outcome \in [kind : {"GOVERNANCE"}, verdict : Verdicts, amount : Nat,
                           value : Values \cup {NoValue}]
           /\ outcome.verdict # "REPLACE"
           /\ outcome.verdict = "APPROVE" => p.amount <= authority.max
           /\ outcome.verdict = "REDUCE" => outcome.amount <= authority.max
  BY DEF Proposal, ValidNumeric, EvaluateNumeric, Outcome, Governance, Refused, Verdicts

LEMMA AllowlistOutcome ==
    ASSUME NEW env, NEW p \in Proposal, NEW authority,
           authority.allowed \subseteq Values, ValidAllowlist(authority),
           NEW outcome, outcome = EvaluateAllowlist(env, p, authority)
    PROVE  /\ outcome \in [kind : {"GOVERNANCE"}, verdict : Verdicts, amount : Nat,
                           value : Values \cup {NoValue}]
           /\ outcome.verdict # "REDUCE"
           /\ outcome.verdict = "APPROVE" => p.value \in authority.allowed
           /\ outcome.verdict = "REPLACE" => outcome.value \in authority.allowed
  BY DEF Proposal, ValidAllowlist, Replaces, EvaluateAllowlist, Outcome, Governance, Refused,
         Verdicts

LEMMA GovernedOutcome ==
    ASSUME NEW env, NormalizedAuthority(env.authority), NEW p \in Proposal,
           NEW outcome, outcome = Evaluate(env, p), outcome.kind = "GOVERNANCE"
    PROVE  /\ outcome \in [kind : {"GOVERNANCE"}, verdict : Verdicts, amount : Nat,
                           value : Values \cup {NoValue}]
           /\ WithinAuthority(env.authority, p, outcome)
  <1> DEFINE Typed == [kind : {"GOVERNANCE"}, verdict : Verdicts, amount : Nat,
                       value : Values \cup {NoValue}]
  <1>1. ValidProposal(env, p)
    BY DEF Evaluate, InvalidProposal, Governance, Outcome
  <1>2. CASE env.state = "CONTRACT_SATISFIED"
    BY <1>1, <1>2 DEF Evaluate, Governance, Outcome, Verdicts, WithinAuthority,
                      GrantedAmount, GrantedValues
  <1>3. CASE env.state # "CONTRACT_SATISFIED" /\ p.kind \in NumericKinds
    <2>1. ValidNumeric(p) /\ env.authority[p.kind].max \in Nat
      BY <1>1, <1>3 DEF ValidProposal, NormalizedAuthority
    <2>2. outcome = EvaluateNumeric(p, env.authority[p.kind])
      BY <1>1, <1>3, GateAssumption DEF Evaluate
    <2>3. p.kind \notin AllowlistKinds /\ p.amount \in Nat
      BY <1>3, GateAssumption DEF Proposal
    <2> QED
      BY <2>1, <2>2, <2>3, <1>3, NumericOutcome DEF WithinAuthority, GrantedAmount, GrantedValues
  <1>4. CASE env.state # "CONTRACT_SATISFIED" /\ p.kind \in AllowlistKinds
    <2>1. ValidAllowlist(env.authority[p.kind]) /\ env.authority[p.kind].allowed \subseteq Values
      BY <1>1, <1>4 DEF ValidProposal, NormalizedAuthority
    <2>2. outcome = EvaluateAllowlist(env, p, env.authority[p.kind])
      BY <1>1, <1>4, GateAssumption DEF Evaluate
    <2>3. p.kind \notin NumericKinds
      BY <1>4, GateAssumption
    <2> QED
      BY <2>1, <2>2, <2>3, <1>4, AllowlistOutcome DEF WithinAuthority, GrantedAmount, GrantedValues
  <1>5. CASE env.state # "CONTRACT_SATISFIED" /\ p.kind \notin NumericKinds \cup AllowlistKinds
    BY <1>1, <1>5 DEF Evaluate, Proposal, Kinds, NonMaterial, InvalidProposal, Governance, Outcome
  <1> QED
    BY <1>2, <1>3, <1>4, <1>5

LEMMA AnyOutcome ==
    ASSUME NEW env, NormalizedAuthority(env.authority), NEW p \in Proposal,
           NEW outcome, outcome = Evaluate(env, p)
    PROVE  outcome \in [kind : {"GOVERNANCE", "NON_MATERIAL", "INVALID_PROPOSAL"},
                        verdict : Verdicts \cup {"NONE"}, amount : Nat,
                        value : Values \cup {NoValue}]
  <1>1. CASE outcome.kind = "GOVERNANCE"
    BY <1>1, GovernedOutcome
  <1>2. CASE outcome.kind # "GOVERNANCE"
    <2>1. outcome = NonMaterial \/ outcome = InvalidProposal
      <3>1. \A q, a : EvaluateNumeric(q, a).kind = "GOVERNANCE"
        BY DEF EvaluateNumeric, Refused, Governance, Outcome
      <3>2. \A e, q, a : EvaluateAllowlist(e, q, a).kind = "GOVERNANCE"
        BY DEF EvaluateAllowlist, Refused, Governance, Outcome
      <3>3. Governance("BLOCK").kind = "GOVERNANCE"
        BY DEF Governance, Outcome
      <3> QED
        BY <1>2, <3>1, <3>2, <3>3 DEF Evaluate, Proposal, Kinds
    <2> QED
      BY <2>1 DEF NonMaterial, InvalidProposal, Governance, Outcome
  <1> QED
    BY <1>1, <1>2

-----------------------------------------------------------------------------
(* The inductive invariant.                                                *)

LEMMA ContractKept ==
    ASSUME Inductive, contract' = contract
    PROVE  SatisfiedIffComplete' /\ LedgerWithinAuthority'
  BY DEF Inductive, SatisfiedIffComplete, LedgerWithinAuthority

LEMMA NoJobTyped == NoJob \in Job
  BY DEF NoJob, Job, Nothing, NonMaterial, Governance, Outcome, States

LEMMA FreshTyped ==
    ASSUME NEW a \in Authorities
    PROVE  FreshEnvelope(a) \in Envelope
  <1>1. Nothing \in [Criteria -> SUBSET Items] /\ <<>> \in Seq(Entry)
    BY DEF Nothing
  <1> QED
    BY <1>1 DEF FreshEnvelope, Envelope, States

\* No evidence completes nothing: a criterion requires some.
LEMMA FreshIncomplete == ~Complete(Nothing)
  <1>1. PICK c \in Criteria : Required[c] # {}
    BY GateAssumption
  <1> QED
    BY <1>1 DEF Complete, Covered, Nothing

LEMMA InitInductive ==
    ASSUME Init
    PROVE  Inductive
  <1>1. PICK envelope \in {None} \cup {FreshEnvelope(a) : a \in Authorities}, scope \in Scopes :
           contract = [status |-> "active", scope |-> scope, envelope |-> envelope]
    BY DEF Init
  <1>2. contract \in ContractFile /\ (contract.envelope # None => contract.envelope.ledger = <<>>)
    BY <1>1, FreshTyped DEF ContractFile, FreshEnvelope
  <1>3. TypeOK
    <2>1. lock = Free /\ pc \in [Procs -> {"idle"}] /\ job \in [Procs -> Job] /\ faults = 0
      BY NoJobTyped DEF Init
    <2> QED
      BY <1>2, <2>1, EnvelopeAssumption DEF TypeOK
  <1>4. SatisfiedIffComplete
    BY <1>1, FreshIncomplete DEF SatisfiedIffComplete, FreshEnvelope
  <1>5. Holds /\ Wants /\ LedgerWithinAuthority
    BY <1>2 DEF Init, Holds, Wants, LedgerWithinAuthority, At
  <1>6. AnsweredIsRecorded
    BY <1>2 DEF Init, AnsweredIsRecorded, At
  <1> QED
    BY <1>3, <1>4, <1>5, <1>6 DEF Inductive

LEMMA AttachBeginKeeps ==
    ASSUME Inductive, NEW p \in Procs,
           BeginAttach(p) \/ BeginPropose(p) \/ BeginAmend(p) \/ BeginClose(p)
    PROVE  Inductive'
  <1>1. PICK locals \in Job :
           /\ Begin(p, locals)
           /\ locals.op \in {"attach", "propose", "amend", "close"}
           /\ locals.op = "attach" => locals.authority \in Authorities
           /\ locals.op = "propose" => locals.proposal \in Proposals
           /\ locals.op = "amend" => locals.scope \in Scopes
    <2>1. CASE BeginAttach(p)
      <3>1. PICK a \in Authorities : Begin(p, [NoJob EXCEPT !.op = "attach", !.authority = a])
        BY <2>1 DEF BeginAttach
      <3>2. [NoJob EXCEPT !.op = "attach", !.authority = a] \in Job
        BY NoJobTyped DEF Job, Operations
      <3> QED
        BY <3>1, <3>2 DEF NoJob
    <2>2. CASE BeginPropose(p)
      <3>1. PICK d \in Proposals : Begin(p, [NoJob EXCEPT !.op = "propose", !.proposal = d])
        BY <2>2 DEF BeginPropose
      <3>2. [NoJob EXCEPT !.op = "propose", !.proposal = d] \in Job
        BY NoJobTyped DEF Job, Operations
      <3> QED
        BY <3>1, <3>2 DEF NoJob
    <2>3. CASE BeginAmend(p)
      <3>1. PICK s \in Scopes : Begin(p, [NoJob EXCEPT !.op = "amend", !.scope = s])
        BY <2>3 DEF BeginAmend
      <3>2. [NoJob EXCEPT !.op = "amend", !.scope = s] \in Job
        BY NoJobTyped DEF Job, Operations
      <3> QED
        BY <3>1, <3>2 DEF NoJob
    <2>4. CASE BeginClose(p)
      <3>1. [NoJob EXCEPT !.op = "close"] \in Job
        BY NoJobTyped DEF Job, Operations
      <3> QED
        BY <2>4, <3>1 DEF BeginClose, NoJob
    <2> QED
      BY <2>1, <2>2, <2>3, <2>4
  <1>2. TypeOK'
    BY <1>1 DEF Inductive, TypeOK, Begin, Goto
  <1>3. Holds'
    BY <1>1 DEF Inductive, TypeOK, Holds, Begin, Goto, At
  <1>4. Wants'
    BY <1>1 DEF Inductive, TypeOK, Wants, Grounded, Begin, Goto
  <1>5. SatisfiedIffComplete' /\ LedgerWithinAuthority'
    BY <1>1, ContractKept DEF Begin
  <1>6. AnsweredIsRecorded'
    BY <1>1 DEF Inductive, TypeOK, AnsweredIsRecorded, Entries, Begin, Goto, At
  <1> QED
    BY <1>2, <1>3, <1>4, <1>5, <1>6 DEF Inductive

LEMMA CheckBeginKeeps ==
    ASSUME Inductive, NEW p \in Procs, BeginCheck(p)
    PROVE  Inductive'
  <1>1. contract.envelope \in Envelope
    BY DEF Inductive, TypeOK, ContractFile, BeginCheck
  <1>2. PICK submission \in Submissions :
           Begin(p, [NoJob EXCEPT
                 !.op = "check",
                 !.evidence = MergeEvidence(contract.envelope.evidence, submission),
                 !.state = IF Complete(MergeEvidence(contract.envelope.evidence, submission))
                           THEN "CONTRACT_SATISFIED" ELSE "OPEN"])
    BY DEF BeginCheck
  <1> DEFINE locals ==
         [NoJob EXCEPT
                 !.op = "check",
                 !.evidence = MergeEvidence(contract.envelope.evidence, submission),
                 !.state = IF Complete(MergeEvidence(contract.envelope.evidence, submission))
                           THEN "CONTRACT_SATISFIED" ELSE "OPEN"]
  <1>3. submission \in [Criteria -> SUBSET Items]
    BY EnvelopeAssumption
  <1>4. MergeEvidence(contract.envelope.evidence, submission) \in [Criteria -> SUBSET Items]
    BY <1>1, <1>3 DEF MergeEvidence, Envelope
  <1>5. /\ locals \in Job
        /\ locals.op = "check"
        /\ locals.evidence = MergeEvidence(contract.envelope.evidence, submission)
        /\ locals.state = "CONTRACT_SATISFIED" <=> Complete(locals.evidence)
    BY <1>4, NoJobTyped DEF Job, NoJob, Operations, States
  <1>6a. Begin(p, locals)
    BY <1>2
  <1> HIDE DEF locals
  <1>6. TypeOK'
    BY <1>6a, <1>5 DEF Inductive, TypeOK, Begin, Goto
  <1>7. Holds'
    BY <1>6a DEF Inductive, TypeOK, Holds, Begin, Goto, At
  <1>8. Wants'
    <2>1. Grounded(p)'
      <3>1. job'[p] = locals /\ contract' = contract
        BY <1>6a DEF Begin, Inductive, TypeOK
      <3> QED
        BY <3>1, <1>1, <1>3, <1>5, EnvelopeAssumption DEF Grounded, MergeEvidence, Complete, Covered
    <2> QED
      BY <2>1, <1>6a, <1>5 DEF Inductive, TypeOK, Wants, Grounded, Begin, Goto
  <1>9. SatisfiedIffComplete' /\ LedgerWithinAuthority'
    BY <1>6a, ContractKept DEF Begin
  <1>10. AnsweredIsRecorded'
    BY <1>6a DEF Inductive, TypeOK, AnsweredIsRecorded, Entries, Begin, Goto, At
  <1> QED
    BY <1>6, <1>7, <1>8, <1>9, <1>10 DEF Inductive

LEMMA LockKeeps ==
    ASSUME Inductive, NEW p \in Procs,
           Enter(p) \/ EnterFails(p) \/ Leave(p) \/ Crash(p)
    PROVE  Inductive'
  <1>1. contract' = contract
    BY DEF Enter, EnterFails, Leave, Crash
  <1>2. TypeOK'
    <2>1. job' \in [Procs -> Job]
      <3>1. [job[p] EXCEPT !.current = contract] \in Job
        <4>1. job[p] \in Job /\ contract \in ContractFile
          BY DEF Inductive, TypeOK
        <4> QED
          BY <4>1 DEF Job
      <3>2. \/ job' = [job EXCEPT ![p] = [job[p] EXCEPT !.current = contract]]
            \/ job' = [job EXCEPT ![p] = NoJob]
        BY DEF Enter, EnterFails, Leave, Crash
      <3>3. job \in [Procs -> Job]
        BY DEF Inductive, TypeOK
      <3> QED
        BY <3>1, <3>2, <3>3, NoJobTyped
    <2> QED
      BY <1>1, <2>1, EnvelopeAssumption DEF Inductive, TypeOK, Enter, EnterFails, Leave, Crash, Goto
  <1>3. Holds'
    BY EnvelopeAssumption
       DEF Inductive, TypeOK, Holds, Enter, EnterFails, Leave, Crash, MayEnter, Goto, At, Job
  <1>4. Wants'
    <2>1. \A q \in Procs : pc'[q] \in {"enter", "decide"} =>
             /\ pc[q] \in {"enter", "decide"}
             /\ job'[q] = job[q] \/ job'[q] = [job[q] EXCEPT !.current = contract]
      BY DEF Inductive, TypeOK, Enter, EnterFails, Leave, Crash, Goto, At
    <2>2. \A q \in Procs : job[q] \in Job
      BY DEF Inductive, TypeOK
    <2>3. \A q \in Procs : pc'[q] \in {"enter", "decide"} =>
             /\ job'[q].op = job[q].op
             /\ job'[q].authority = job[q].authority
             /\ job'[q].evidence = job[q].evidence
             /\ job'[q].state = job[q].state
             /\ job'[q].proposal = job[q].proposal
             /\ job'[q].scope = job[q].scope
      <3>1. ASSUME NEW j \in Job, NEW k, k = [j EXCEPT !.current = contract]
            PROVE  /\ k.op = j.op
                   /\ k.authority = j.authority
                   /\ k.evidence = j.evidence
                   /\ k.state = j.state
                   /\ k.proposal = j.proposal
                   /\ k.scope = j.scope
        BY <3>1 DEF Job
      <3> QED
        BY <2>1, <2>2, <3>1
    <2>4. \A q \in Procs : pc'[q] \in {"enter", "decide"} => (Grounded(q) => Grounded(q)')
      BY <1>1, <2>3 DEF Grounded, Complete, Covered
    <2>5. Wants
      BY DEF Inductive
    <2>6. \A q \in Procs : pc'[q] \in {"enter", "decide"} => pc[q] \in {"enter", "decide"}
      BY <2>1
    <2> QED
      BY <2>3, <2>4, <2>5, <2>6 DEF Wants
  <1>5. SatisfiedIffComplete' /\ LedgerWithinAuthority'
    BY <1>1, ContractKept
  <1>6. AnsweredIsRecorded'
    <2>1. \A q \in Procs : At(q, "leave")' => At(q, "leave") /\ job'[q] = job[q]
      BY DEF Inductive, TypeOK, Enter, EnterFails, Leave, Crash, Goto, At
    <2> QED
      BY <1>1, <2>1 DEF Inductive, AnsweredIsRecorded, Entries
  <1> QED
    BY <1>2, <1>3, <1>4, <1>5, <1>6 DEF Inductive

\* How an operation under the lock may change an envelope that is there.
Grows ==
    contract.envelope # None =>
        /\ contract'.envelope # None
        /\ contract'.envelope.authority = contract.envelope.authority
        /\ contract.envelope.state = "CONTRACT_SATISFIED" =>
              contract'.envelope.state = "CONTRACT_SATISFIED"
        /\ \A c \in Criteria :
              contract.envelope.evidence[c] \subseteq contract'.envelope.evidence[c]

Answers == [kind : {"GOVERNANCE", "NON_MATERIAL", "INVALID_PROPOSAL"},
            verdict : Verdicts \cup {"NONE"}, amount : Nat, value : Values \cup {NoValue}]

\* An operation under the lock changes only the file and its own locals.
LEMMA OperationKeeps ==
    ASSUME Inductive, NEW p \in Procs, At(p, "decide"), Goto(p, "leave"),
           contract' \in ContractFile, Grows, lock' = lock, faults' \in 0..MaxFaults,
           NEW d \in Proposals \cup {None}, NEW a \in Answers, Answer(p, d, a)
    PROVE  TypeOK' /\ Holds' /\ Wants'
  <1>1. [NoJob EXCEPT !.proposal = d, !.answer = a] \in Job
    BY NoJobTyped DEF Job, Answers
  <1>2. job' \in [Procs -> Job]
    BY <1>1 DEF Inductive, TypeOK, Answer
  <1>3. TypeOK'
    BY <1>2 DEF Inductive, TypeOK, Goto
  <1>4. Holds'
    BY DEF Inductive, TypeOK, Holds, Goto, At, Answer
  <1>5. \A q \in Procs : pc'[q] \in {"enter", "decide"} =>
            q # p /\ pc'[q] = pc[q] /\ job'[q] = job[q]
    BY DEF Inductive, TypeOK, Goto, Answer
  <1>6. \A q \in Procs : Grounded(q) /\ job'[q] = job[q] => Grounded(q)'
    <2> SUFFICES ASSUME NEW q \in Procs, Grounded(q), job'[q] = job[q]
                 PROVE  Grounded(q)'
      OBVIOUS
    <2>1. contract'.envelope # None
      BY DEF Grounded, Grows
    <2>2. job'[q].state = "CONTRACT_SATISFIED" <=> Complete(job'[q].evidence)
      BY DEF Grounded
    <2>3. PICK submission \in Submissions :
             \A c \in Criteria :
                 /\ job[q].evidence[c] \subseteq contract.envelope.evidence[c] \cup submission[c]
                 /\ submission[c] \subseteq job[q].evidence[c]
      BY DEF Grounded
    <2>4. \A c \in Criteria :
             /\ job'[q].evidence[c] \subseteq contract'.envelope.evidence[c] \cup submission[c]
             /\ submission[c] \subseteq job'[q].evidence[c]
      BY <2>3 DEF Grounded, Grows
    <2> QED
      BY <2>1, <2>2, <2>4 DEF Grounded
  <1>7. Wants'
    BY <1>5, <1>6 DEF Inductive, Wants
  <1> QED
    BY <1>3, <1>4, <1>7

\* While one process leaves, no other does: only its answer is to be explained.
LEMMA OnlyOneLeaves ==
    ASSUME Inductive, NEW p \in Procs, At(p, "decide"), Goto(p, "leave")
    PROVE  \A q \in Procs : At(q, "leave")' => q = p
  BY DEF Inductive, TypeOK, Holds, Goto, At

LEMMA SilentAnswers ==
    ASSUME Inductive, NEW p \in Procs, At(p, "decide"), Goto(p, "leave"), Silent(p),
           \/ contract' = contract
           \/ contract'.envelope = contract.envelope
           \/ contract'.envelope # None /\ contract'.envelope.ledger = <<>>
           \/ contract.envelope # None /\ contract'.envelope.ledger = contract.envelope.ledger
    PROVE  /\ AnsweredIsRecorded'
           /\ NonMaterial \in Answers
  <1>1. job'[p].answer = NonMaterial /\ NonMaterial.kind = "NON_MATERIAL"
    BY DEF Inductive, TypeOK, Silent, Answer, NoJob, NonMaterial, Governance, Outcome
  <1>2. NonMaterial \in Answers
    BY DEF NonMaterial, Answers, Governance, Outcome
  <1>3. AnsweredIsRecorded'
    BY <1>1, OnlyOneLeaves DEF Inductive, AnsweredIsRecorded, Entries
  <1> QED
    BY <1>2, <1>3

LEMMA RefusalKeeps ==
    ASSUME Inductive, NEW p \in Procs, At(p, "decide"), Goto(p, "leave"), Silent(p),
           contract' = contract, lock' = lock, faults' \in 0..MaxFaults
    PROVE  Inductive'
  <1>1. contract' \in ContractFile /\ Grows
    BY DEF Inductive, TypeOK, Grows
  <1>2. AnsweredIsRecorded' /\ NonMaterial \in Answers
    BY SilentAnswers
  <1>3. TypeOK' /\ Holds' /\ Wants'
    BY <1>1, <1>2, OperationKeeps DEF Silent
  <1> QED
    BY <1>2, <1>3, ContractKept DEF Inductive

\* A process that decides does so on the file itself.
LEMMA CurrentIsFile ==
    ASSUME Inductive, NEW p \in Procs, At(p, "decide")
    PROVE  /\ job[p].current = contract
           /\ contract \in ContractFile
           /\ job[p] \in Job
           /\ faults \in 0..MaxFaults
  BY DEF Inductive, TypeOK, Holds

LEMMA AttachKeeps ==
    ASSUME Inductive, NEW p \in Procs, Attach(p)
    PROVE  Inductive' /\ Grows
  <1>1. At(p, "decide")
    BY DEF Attach
  <1>2. CASE contract.envelope # None
    <2>1. Refuse(p)
      BY <1>1, <1>2, CurrentIsFile DEF Attach
    <2> QED
      BY <1>1, <2>1, RefusalKeeps, CurrentIsFile DEF Refuse, Grows
  <1>3. CASE contract.envelope = None
    <2>1. PICK a \in Authorities :
             /\ contract' = [contract EXCEPT !.envelope = FreshEnvelope(a)]
             /\ Goto(p, "leave") /\ lock' = lock /\ faults' = faults /\ Silent(p)
      BY <1>1, <1>3, CurrentIsFile DEF Attach, Write, Inductive, Wants, At
    <2>2. /\ contract' \in ContractFile
          /\ contract'.envelope = FreshEnvelope(a)
          /\ contract'.envelope # None
      BY <1>1, <2>1, CurrentIsFile, FreshTyped, EnvelopeAssumption DEF ContractFile
    <2>3. /\ contract'.envelope.ledger = <<>>
          /\ contract'.envelope.evidence = Nothing
          /\ contract'.envelope.state = "OPEN"
      BY <2>2 DEF FreshEnvelope
    <2>4. Grows
      BY <1>3 DEF Grows
    <2>5. AnsweredIsRecorded' /\ NonMaterial \in Answers
      BY <1>1, <2>1, <2>2, <2>3, SilentAnswers
    <2>6. TypeOK' /\ Holds' /\ Wants'
      BY <1>1, <2>1, <2>2, <2>4, <2>5, OperationKeeps, CurrentIsFile DEF Silent
    <2>7. SatisfiedIffComplete' /\ LedgerWithinAuthority'
      BY <2>2, <2>3, FreshIncomplete DEF SatisfiedIffComplete, LedgerWithinAuthority
    <2> QED
      BY <2>4, <2>5, <2>6, <2>7 DEF Inductive
  <1> QED
    BY <1>2, <1>3

\* What CHECK writes, and that it is the file's evidence with its submission.
LEMMA SubmitWrites ==
    ASSUME Inductive, NEW p \in Procs, Submit(p), ~Refuse(p)
    PROVE  \E submission \in Submissions, evidence \in [Criteria -> SUBSET Items] :
              /\ evidence = MergeEvidence(contract.envelope.evidence, submission)
              /\ contract.envelope # None
              /\ contract' = [contract EXCEPT
                    !.envelope.evidence = evidence,
                    !.envelope.state = IF Complete(evidence) THEN "CONTRACT_SATISFIED" ELSE "OPEN"]
              /\ Goto(p, "leave") /\ lock' = lock /\ faults' = faults /\ Silent(p)
  <1>1. At(p, "decide") /\ job[p].op = "check"
    BY DEF Submit
  <1>2. Grounded(p)
    BY <1>1 DEF Inductive, Wants, At
  <1>3. contract.envelope \in Envelope /\ contract.envelope # None
    BY <1>1, <1>2, CurrentIsFile DEF ContractFile, Grounded
  <1>4. PICK submission \in Submissions :
           \A c \in Criteria :
              /\ job[p].evidence[c] \subseteq contract.envelope.evidence[c] \cup submission[c]
              /\ submission[c] \subseteq job[p].evidence[c]
    BY <1>2 DEF Grounded
  <1> DEFINE evidence == MergeEvidence(contract.envelope.evidence, job[p].evidence)
  <1>5. evidence = MergeEvidence(contract.envelope.evidence, submission)
    BY <1>4 DEF MergeEvidence
  <1>6. evidence \in [Criteria -> SUBSET Items]
    BY <1>1, <1>3, CurrentIsFile DEF MergeEvidence, Envelope, Job
  <1>7. /\ contract' = [contract EXCEPT
               !.envelope.evidence = evidence,
               !.envelope.state = MergedState(contract.envelope, evidence, job[p].state)]
        /\ Goto(p, "leave") /\ lock' = lock /\ faults' = faults /\ Silent(p)
    BY <1>1, CurrentIsFile DEF Submit, Write, MergedEvidence
  <1>8. MergedState(contract.envelope, evidence, job[p].state)
           = IF Complete(evidence) THEN "CONTRACT_SATISFIED" ELSE "OPEN"
    <2>1. contract.envelope.state = "CONTRACT_SATISFIED" => Complete(contract.envelope.evidence)
      BY <1>3 DEF Inductive, SatisfiedIffComplete
    <2>2. Complete(contract.envelope.evidence) => Complete(evidence)
      BY DEF Complete, Covered, MergeEvidence
    <2> QED
      BY <2>1, <2>2 DEF MergedState
  <1> QED
    BY <1>3, <1>5, <1>6, <1>7, <1>8

LEMMA SubmitKeeps ==
    ASSUME Inductive, NEW p \in Procs, Submit(p)
    PROVE  Inductive' /\ Grows
  <1>1. At(p, "decide")
    BY DEF Submit
  <1>2. CASE Refuse(p)
    BY <1>1, <1>2, RefusalKeeps, CurrentIsFile DEF Refuse, Grows
  <1>3. CASE ~Refuse(p)
    <2>1. PICK submission \in Submissions, evidence \in [Criteria -> SUBSET Items] :
              /\ evidence = MergeEvidence(contract.envelope.evidence, submission)
              /\ contract.envelope # None
              /\ contract' = [contract EXCEPT
                    !.envelope.evidence = evidence,
                    !.envelope.state = IF Complete(evidence) THEN "CONTRACT_SATISFIED" ELSE "OPEN"]
              /\ Goto(p, "leave") /\ lock' = lock /\ faults' = faults /\ Silent(p)
      BY <1>3, SubmitWrites
    <2>2. contract.envelope \in Envelope
      BY <1>1, <2>1, CurrentIsFile DEF ContractFile
    <2>3. /\ contract' \in ContractFile
          /\ contract'.envelope \in Envelope
          /\ contract'.envelope.evidence = evidence
          /\ contract'.envelope.state = IF Complete(evidence) THEN "CONTRACT_SATISFIED" ELSE "OPEN"
          /\ contract'.envelope.ledger = contract.envelope.ledger
          /\ contract'.envelope.authority = contract.envelope.authority
      BY <1>1, <2>1, <2>2, CurrentIsFile DEF ContractFile, Envelope, States
    <2>4. contract'.envelope # None
      BY <2>3, EnvelopeAssumption
    <2>5. Grows
      <3>1. \A c \in Criteria : contract.envelope.evidence[c] \subseteq evidence[c]
        BY <2>1 DEF MergeEvidence
      <3>2. Complete(contract.envelope.evidence) => Complete(evidence)
        BY <3>1 DEF Complete, Covered
      <3> QED
        BY <2>1, <2>3, <2>4, <3>1, <3>2 DEF Grows, Inductive, SatisfiedIffComplete
    <2>6. AnsweredIsRecorded' /\ NonMaterial \in Answers
      BY <1>1, <2>1, <2>3, SilentAnswers
    <2>7. TypeOK' /\ Holds' /\ Wants'
      BY <1>1, <2>1, <2>3, <2>5, <2>6, OperationKeeps, CurrentIsFile DEF Silent
    <2>8. SatisfiedIffComplete'
      BY <2>3 DEF SatisfiedIffComplete
    <2>9. LedgerWithinAuthority'
      BY <2>1, <2>3 DEF Inductive, LedgerWithinAuthority
    <2> QED
      BY <2>5, <2>6, <2>7, <2>8, <2>9 DEF Inductive
  <1> QED
    BY <1>2, <1>3

\* What a proposal does: an answer, and an entry when the answer is governed and
\* nothing is on record under its identifier.
LEMMA ProposeAnswers ==
    ASSUME Inductive, NEW p \in Procs, Propose(p), ~Refuse(p)
    PROVE  \E d \in Proposals, a \in Answers :
              /\ contract.envelope # None
              /\ Goto(p, "leave") /\ lock' = lock /\ faults' = faults /\ Answer(p, d, a)
              /\ \/ /\ contract' = contract
                    /\ a.kind = "GOVERNANCE" =>
                          \E i \in DOMAIN contract.envelope.ledger :
                              contract.envelope.ledger[i].proposal = d
                 \/ /\ a = Evaluate(contract.envelope, d)
                    /\ a.kind = "GOVERNANCE"
                    /\ Entries(contract.envelope, d.id) = {}
                    /\ contract' = [contract EXCEPT !.envelope.ledger =
                                       Append(@, [proposal |-> d, outcome |-> a])]
  <1> DEFINE envelope == contract.envelope
             d == job[p].proposal
             conflict == \E i \in Entries(envelope, d.id) : envelope.ledger[i].proposal # d
             a == IF conflict THEN InvalidProposal ELSE Evaluate(envelope, d)
  <1>1. At(p, "decide") /\ job[p].op = "propose" /\ job[p].current = contract
    BY CurrentIsFile DEF Propose
  <1>2. d \in Proposals
    BY <1>1 DEF Inductive, Wants, At
  <1>3. envelope # None
    BY <1>1 DEF Propose
  <1>4. envelope \in Envelope
    BY <1>1, <1>3, CurrentIsFile DEF ContractFile
  <1>5. a \in Answers
    <2>1. Evaluate(envelope, d) \in Answers
      BY <1>2, <1>4, EnvelopeAssumption, AnyOutcome DEF Envelope, Answers
    <2>2. InvalidProposal \in Answers
      BY DEF InvalidProposal, Governance, Outcome, Answers
    <2> QED
      BY <2>1, <2>2
  <1>6. /\ Goto(p, "leave") /\ lock' = lock /\ faults' = faults /\ Answer(p, d, a)
        /\ contract' = IF Records(envelope, d, a)
                       THEN [contract EXCEPT !.envelope.ledger =
                                Append(@, [proposal |-> d, outcome |-> a])]
                       ELSE contract
    BY <1>1, <1>3 DEF Propose, Write
  <1>7. CASE Records(envelope, d, a)
    <2>1. Entries(envelope, d.id) = {} /\ a.kind = "GOVERNANCE"
      BY <1>7 DEF Records, Fresh
    <2>2. a = Evaluate(envelope, d)
      BY <2>1
    <2> QED
      BY <1>2, <1>3, <1>5, <1>6, <1>7, <2>1, <2>2
  <1>8. CASE ~Records(envelope, d, a)
    <2>1. ASSUME a.kind = "GOVERNANCE"
          PROVE  \E i \in DOMAIN envelope.ledger : envelope.ledger[i].proposal = d
      <3>1. PICK i \in Entries(envelope, d.id) : TRUE
        BY <1>8, <2>1 DEF Records, Fresh
      <3>2. ~conflict
        BY <2>1 DEF InvalidProposal, Governance, Outcome
      <3> QED
        BY <3>1, <3>2 DEF Entries
    <2> QED
      BY <1>2, <1>3, <1>5, <1>6, <1>8, <2>1
  <1> QED
    BY <1>7, <1>8

LEMMA ProposeKeeps ==
    ASSUME Inductive, NEW p \in Procs, Propose(p)
    PROVE  Inductive' /\ Grows
  <1>1. At(p, "decide")
    BY DEF Propose
  <1>2. CASE Refuse(p)
    BY <1>1, <1>2, RefusalKeeps, CurrentIsFile DEF Refuse, Grows
  <1>3. CASE ~Refuse(p)
    <2>1. PICK d \in Proposals, a \in Answers :
              /\ contract.envelope # None
              /\ Goto(p, "leave") /\ lock' = lock /\ faults' = faults /\ Answer(p, d, a)
              /\ \/ /\ contract' = contract
                    /\ a.kind = "GOVERNANCE" =>
                          \E i \in DOMAIN contract.envelope.ledger :
                              contract.envelope.ledger[i].proposal = d
                 \/ /\ a = Evaluate(contract.envelope, d)
                    /\ a.kind = "GOVERNANCE"
                    /\ Entries(contract.envelope, d.id) = {}
                    /\ contract' = [contract EXCEPT !.envelope.ledger =
                                       Append(@, [proposal |-> d, outcome |-> a])]
      BY <1>3, ProposeAnswers
    <2>2. contract.envelope \in Envelope /\ contract \in ContractFile /\ faults \in 0..MaxFaults
      BY <1>1, <2>1, CurrentIsFile DEF ContractFile
    <2>3. /\ job'[p].answer = a /\ job'[p].proposal = d
          /\ \A q \in Procs : At(q, "leave")' => q = p
      BY <1>1, <2>1, OnlyOneLeaves DEF Inductive, TypeOK, Answer, NoJob
    <2>4. CASE contract' = contract
      <3>1. Grows
        BY <2>4 DEF Grows
      <3>2. TypeOK' /\ Holds' /\ Wants'
        BY <1>1, <2>1, <2>2, <2>4, <3>1, OperationKeeps
      <3>3. AnsweredIsRecorded'
        <4>1. a.kind = "GOVERNANCE" =>
                  \E i \in DOMAIN contract.envelope.ledger :
                      contract.envelope.ledger[i].proposal = d
          <5>1. ASSUME contract = [contract EXCEPT !.envelope.ledger =
                                      Append(@, [proposal |-> d, outcome |-> a])]
                PROVE  FALSE
            <6>1. contract.envelope.ledger
                     = Append(contract.envelope.ledger, [proposal |-> d, outcome |-> a])
              BY <2>2, <5>1 DEF ContractFile, Envelope
            <6>2. contract.envelope.ledger \in Seq(Entry)
              BY <2>2 DEF Envelope
            <6> QED
              BY <6>1, <6>2
          <5> QED
            BY <2>1, <2>4, <5>1
        <4> QED
          BY <2>1, <2>3, <2>4, <4>1 DEF Inductive, AnsweredIsRecorded, Entries
      <3> QED
        BY <2>4, <3>1, <3>2, <3>3, ContractKept DEF Inductive
    <2>5. CASE /\ a = Evaluate(contract.envelope, d)
               /\ a.kind = "GOVERNANCE"
               /\ Entries(contract.envelope, d.id) = {}
               /\ contract' = [contract EXCEPT !.envelope.ledger =
                                  Append(@, [proposal |-> d, outcome |-> a])]
      <3> DEFINE ledger == contract.envelope.ledger
                 entry == [proposal |-> d, outcome |-> a]
      <3>1. d \in Proposal /\ NormalizedAuthority(contract.envelope.authority)
        BY <2>2, EnvelopeAssumption DEF Envelope
      <3>2. WithinAuthority(contract.envelope.authority, d, a) /\ entry \in Entry
        BY <2>5, <3>1, GovernedOutcome DEF Entry
      <3>3. ledger \in Seq(Entry)
        BY <2>2 DEF Envelope
      <3>4. /\ Append(ledger, entry) \in Seq(Entry)
            /\ DOMAIN Append(ledger, entry) = 1..(Len(ledger) + 1)
            /\ DOMAIN ledger = 1..Len(ledger)
            /\ Len(ledger) \in Nat
            /\ \A i \in 1..Len(ledger) : Append(ledger, entry)[i] = ledger[i]
            /\ Append(ledger, entry)[Len(ledger) + 1] = entry
        BY <3>2, <3>3
      <3>5. /\ contract' \in ContractFile
            /\ contract'.envelope \in Envelope
            /\ contract'.envelope.ledger = Append(ledger, entry)
            /\ contract'.envelope.authority = contract.envelope.authority
            /\ contract'.envelope.evidence = contract.envelope.evidence
            /\ contract'.envelope.state = contract.envelope.state
        BY <2>2, <2>5, <3>4 DEF ContractFile, Envelope
      <3>6. contract'.envelope # None
        BY <3>5, EnvelopeAssumption
      <3>7. Grows
        BY <3>5, <3>6 DEF Grows
      <3>8. TypeOK' /\ Holds' /\ Wants'
        BY <1>1, <2>1, <2>2, <3>5, <3>7, OperationKeeps
      <3>9. SatisfiedIffComplete'
        BY <2>1, <3>5 DEF Inductive, SatisfiedIffComplete
      <3>10. LedgerWithinAuthority'
        BY <2>1, <3>2, <3>4, <3>5 DEF Inductive, LedgerWithinAuthority
      <3>11. AnsweredIsRecorded'
        <4>1. \E i \in Entries(contract'.envelope, d.id) :
                  contract'.envelope.ledger[i].proposal = d
          BY <3>4, <3>5 DEF Entries
        <4>2. \A i \in 1..Len(ledger) : ledger[i].proposal.id # d.id
          BY <2>5, <3>4 DEF Entries
        <4>3. \A i, j \in DOMAIN contract'.envelope.ledger :
                 contract'.envelope.ledger[i].proposal.id = contract'.envelope.ledger[j].proposal.id
                     => i = j
          BY <2>1, <3>4, <3>5, <4>2 DEF Inductive, AnsweredIsRecorded
        <4> QED
          BY <2>3, <3>6, <4>1, <4>3 DEF AnsweredIsRecorded
      <3> QED
        BY <3>7, <3>8, <3>9, <3>10, <3>11 DEF Inductive
    <2> QED
      BY <2>1, <2>4, <2>5
  <1> QED
    BY <1>2, <1>3

LEMMA AmendCloseKeeps ==
    ASSUME Inductive, NEW p \in Procs, Amend(p) \/ Close(p) \/ WriteFails(p)
    PROVE  Inductive' /\ Grows
  <1>1. /\ At(p, "decide") /\ Goto(p, "leave") /\ Silent(p) /\ lock' = lock
        /\ faults' \in 0..MaxFaults
    BY CurrentIsFile, EnvelopeAssumption DEF Amend, Close, WriteFails, Refuse, Write
  <1>2. contract' \in ContractFile /\ contract'.envelope = contract.envelope
    <2>1. CASE contract' = contract
      BY <1>1, <2>1, CurrentIsFile
    <2>2. CASE contract' = [contract EXCEPT !.status = "closed"]
      BY <1>1, <2>2, CurrentIsFile DEF ContractFile
    <2>3. CASE \E s \in Scopes : contract' = [contract EXCEPT !.scope = s]
      BY <1>1, <2>3, CurrentIsFile DEF ContractFile
    <2>4. Amend(p) => contract' = contract \/ \E s \in Scopes : contract' = [contract EXCEPT !.scope = s]
      BY <1>1, CurrentIsFile DEF Amend, Refuse, Write, Inductive, Wants, At
    <2>5. Close(p) => contract' = contract \/ contract' = [contract EXCEPT !.status = "closed"]
      BY <1>1, CurrentIsFile DEF Close, Refuse, Write
    <2> QED
      BY <2>1, <2>2, <2>3, <2>4, <2>5 DEF WriteFails
  <1>3. Grows
    BY <1>2 DEF Grows
  <1>4. AnsweredIsRecorded' /\ NonMaterial \in Answers
    BY <1>1, <1>2, SilentAnswers
  <1>5. TypeOK' /\ Holds' /\ Wants'
    BY <1>1, <1>2, <1>3, <1>4, OperationKeeps DEF Silent
  <1>6. SatisfiedIffComplete' /\ LedgerWithinAuthority'
    BY <1>2 DEF Inductive, SatisfiedIffComplete, LedgerWithinAuthority
  <1> QED
    BY <1>3, <1>4, <1>5, <1>6 DEF Inductive

LEMMA NextKeeps ==
    ASSUME Inductive, [Next]_vars
    PROVE  Inductive' /\ Grows
  <1>1. CASE UNCHANGED vars
    <2>1. \A q \in Procs : Grounded(q) => Grounded(q)'
      BY <1>1 DEF vars, Grounded
    <2> QED
      BY <1>1, <2>1, ContractKept
         DEF vars, Inductive, TypeOK, Holds, Wants, Grounded, AnsweredIsRecorded, Grows, At
  <1>2. ASSUME NEW p \in Procs,
               BeginAttach(p) \/ BeginPropose(p) \/ BeginAmend(p) \/ BeginClose(p)
        PROVE  Inductive' /\ Grows
    BY <1>2, AttachBeginKeeps
       DEF BeginAttach, BeginPropose, BeginAmend, BeginClose, Begin, Grows
  <1>3. ASSUME NEW p \in Procs, BeginCheck(p)
        PROVE  Inductive' /\ Grows
    BY <1>3, CheckBeginKeeps DEF BeginCheck, Begin, Grows
  <1>4. ASSUME NEW p \in Procs, Enter(p) \/ EnterFails(p) \/ Leave(p) \/ Crash(p)
        PROVE  Inductive' /\ Grows
    BY <1>4, LockKeeps DEF Enter, EnterFails, Leave, Crash, Grows
  <1>5. ASSUME NEW p \in Procs, Decide(p) \/ WriteFails(p)
        PROVE  Inductive' /\ Grows
    BY <1>5, AttachKeeps, SubmitKeeps, ProposeKeeps, AmendCloseKeeps DEF Decide
  <1> QED
    BY <1>1, <1>2, <1>3, <1>4, <1>5 DEF Next

LEMMA InductiveInvariant == Spec => []Inductive
  <1>1. Init => Inductive
    BY InitInductive
  <1>2. Inductive /\ [Next]_vars => Inductive'
    BY NextKeeps
  <1> QED
    BY <1>1, <1>2, PTL DEF Spec

-----------------------------------------------------------------------------
(* Theorems.                                                               *)

\* The contract file keeps its shape under any overlap of the operations
\* (writeExecutionEnvelopeInPlace, writeSatisfactionRecordInPlace,
\* evaluateAndRecordMaterialDecisionInPlace, AMEND, CLOSE).
THEOREM TypeCorrect == Spec => []TypeOK
  <1>1. Inductive => TypeOK
    BY DEF Inductive
  <1> QED
    BY <1>1, InductiveInvariant, PTL

\* A contract is CONTRACT_SATISFIED exactly when its evidence is complete,
\* however the CHECKs that submitted it overlapped.
THEOREM SatisfactionIsEarned == Spec => []SatisfiedIffComplete
  <1>1. Inductive => SatisfiedIffComplete
    BY DEF Inductive
  <1> QED
    BY <1>1, InductiveInvariant, PTL

\* Whatever the proposals and the declared authority are, the ledger never
\* holds a decision that grants more than was declared for its kind.
THEOREM LedgerStaysWithin == Spec => []LedgerWithinAuthority
  <1>1. Inductive => LedgerWithinAuthority
    BY DEF Inductive
  <1> QED
    BY <1>1, InductiveInvariant, PTL

\* An answer a process has been given is one the ledger explains, and an
\* identifier has one entry.
THEOREM AnswersAreRecorded == Spec => []AnsweredIsRecorded
  <1>1. Inductive => AnsweredIsRecorded
    BY DEF Inductive
  <1> QED
    BY <1>1, InductiveInvariant, PTL

\* An envelope further on, under the same authority: more evidence, and perhaps
\* satisfied.
LEMMA GrantsShrink ==
    ASSUME NEW env, NEW next, NEW p \in Proposal,
           NormalizedAuthority(env.authority),
           next.authority = env.authority,
           env.state = "CONTRACT_SATISFIED" => next.state = "CONTRACT_SATISFIED",
           \A c \in Criteria : env.evidence[c] \subseteq next.evidence[c]
    PROVE  /\ GrantedAmount(p, Evaluate(next, p)) <= GrantedAmount(p, Evaluate(env, p))
           /\ GrantedValues(p, Evaluate(next, p)) \subseteq GrantedValues(p, Evaluate(env, p))
  <1> DEFINE before == Evaluate(env, p)
             after == Evaluate(next, p)
  <1>1. before \in Answers /\ after \in Answers
    BY AnyOutcome DEF Answers
  <1>2. GrantedAmount(p, before) \in Nat
    BY <1>1 DEF Answers, GrantedAmount, Proposal
  <1>3. CASE after = before
    BY <1>2, <1>3
  <1>4. CASE after.verdict \notin {"APPROVE", "REDUCE", "REPLACE"}
    <2>1. GrantedAmount(p, after) = 0 /\ GrantedValues(p, after) = {}
      BY <1>4 DEF GrantedAmount, GrantedValues
    <2> QED
      BY <1>2, <2>1
  <1>5. CASE ~ValidProposal(env, p)
    BY <1>3, <1>5 DEF Evaluate, ValidProposal
  <1>6. CASE ValidProposal(env, p) /\ next.state = "CONTRACT_SATISFIED"
    BY <1>4, <1>6 DEF Evaluate, ValidProposal, Governance, Outcome
  <1>7. CASE ValidProposal(env, p) /\ next.state # "CONTRACT_SATISFIED"
    <2>1. ValidProposal(next, p) /\ env.state # "CONTRACT_SATISFIED"
      BY <1>7 DEF ValidProposal
    <2>2. CASE p.kind \notin AllowlistKinds
      <3>1. after = before
        BY <1>7, <2>1, <2>2, GateAssumption DEF Evaluate, Proposal, Kinds
      <3> QED
        BY <1>3, <3>1
    <2>3. CASE p.kind \in AllowlistKinds
      <3> DEFINE authority == env.authority[p.kind]
      <3>1. /\ before = EvaluateAllowlist(env, p, authority)
            /\ after = EvaluateAllowlist(next, p, authority)
        BY <1>7, <2>1, <2>3, GateAssumption DEF Evaluate
      <3>2. ValidAllowlist(authority)
        BY <1>7, <2>3 DEF ValidProposal
      <3>3. Replaces(next, p, authority) => Replaces(env, p, authority)
        BY <3>2 DEF Replaces, Covered, ValidAllowlist
      <3>4. after = before \/ after.verdict \notin {"APPROVE", "REDUCE", "REPLACE"}
        BY <3>1, <3>3 DEF EvaluateAllowlist, Refused, Governance, Outcome
      <3> QED
        BY <1>3, <1>4, <3>4
    <2> QED
      BY <2>2, <2>3
  <1> QED
    BY <1>5, <1>6, <1>7

\* Nothing an envelope's holders can do makes the gate more generous later.
THEOREM GrantsNeverGrow == Spec => GrantsOnlyShrink
  <1>1. Inductive /\ [Next]_vars =>
           [contract.envelope # None =>
              \A p \in Proposals :
                  LET before == Evaluate(contract.envelope, p)
                      after == Evaluate(contract'.envelope, p)
                  IN  /\ GrantedAmount(p, after) <= GrantedAmount(p, before)
                      /\ GrantedValues(p, after) \subseteq GrantedValues(p, before)]_vars
    <2> SUFFICES ASSUME Inductive, [Next]_vars, contract.envelope # None, NEW p \in Proposals
                 PROVE  /\ GrantedAmount(p, Evaluate(contract'.envelope, p))
                              <= GrantedAmount(p, Evaluate(contract.envelope, p))
                        /\ GrantedValues(p, Evaluate(contract'.envelope, p))
                              \subseteq GrantedValues(p, Evaluate(contract.envelope, p))
      OBVIOUS
    <2>1. Grows
      BY NextKeeps
    <2>2. NormalizedAuthority(contract.envelope.authority) /\ p \in Proposal
      BY EnvelopeAssumption DEF Inductive, TypeOK, ContractFile, Envelope
    <2> QED
      BY <2>1, <2>2, GrantsShrink DEF Grows
  <1> QED
    BY <1>1, InductiveInvariant, PTL DEF Spec, GrantsOnlyShrink

-----------------------------------------------------------------------------
(* Refinement.                                                             *)

\* Both specifications ask the same gate.
LEMMA SameGate ==
    /\ \A evidence : Abstract!Complete(evidence) <=> Complete(evidence)
    /\ \A left, right : Abstract!MergeEvidence(left, right) = MergeEvidence(left, right)
    /\ \A a : Abstract!FreshEnvelope(a) = FreshEnvelope(a)
  BY DEF Abstract!Complete, Abstract!Covered, Complete, Covered, Abstract!MergeEvidence,
         MergeEvidence, Abstract!FreshEnvelope, FreshEnvelope, Nothing

LEMMA SameEvaluate ==
    ASSUME NEW env, NEW p \in Proposal
    PROVE  Abstract!Evaluate(env, p) = Evaluate(env, p)
  <1>1. Abstract!ValidProposal(env, p) <=> ValidProposal(env, p)
    BY DEF Abstract!ValidProposal, ValidProposal, Abstract!ValidNumeric, ValidNumeric,
           Abstract!ValidAllowlist, ValidAllowlist
  <1>2. /\ Abstract!NonMaterial = NonMaterial
        /\ Abstract!InvalidProposal = InvalidProposal
        /\ \A v : Abstract!Governance(v) = Governance(v)
    BY DEF Abstract!NonMaterial, NonMaterial, Abstract!InvalidProposal, InvalidProposal,
           Abstract!Governance, Governance, Abstract!Outcome, Outcome
  <1>3. \A a : Abstract!EvaluateNumeric(p, a) = EvaluateNumeric(p, a)
    BY DEF Abstract!EvaluateNumeric, EvaluateNumeric, Abstract!Refused, Refused,
           Abstract!Governance, Governance, Abstract!Outcome, Outcome
  <1>4. \A a : Abstract!EvaluateAllowlist(env, p, a) = EvaluateAllowlist(env, p, a)
    BY DEF Abstract!EvaluateAllowlist, EvaluateAllowlist, Abstract!Replaces, Replaces,
           Abstract!Covered, Covered, Abstract!Refused, Refused,
           Abstract!Governance, Governance, Abstract!Outcome, Outcome
  <1>5. CASE ~ValidProposal(env, p) \/ env.state = "CONTRACT_SATISFIED"
    BY <1>1, <1>2, <1>5 DEF Abstract!Evaluate, Evaluate
  <1>6. CASE ValidProposal(env, p) /\ env.state # "CONTRACT_SATISFIED"
    <2>1. CASE p.kind = "scope_expansion"
      BY <1>1, <1>2, <1>6, <2>1, GateAssumption DEF Abstract!Evaluate, Evaluate
    <2>2. CASE p.kind = "post_satisfaction_work"
      BY <1>1, <1>2, <1>6, <2>2, GateAssumption DEF Abstract!Evaluate, Evaluate
    <2>3. CASE p.kind \in NumericKinds
      BY <1>1, <1>3, <1>6, <2>3, GateAssumption DEF Abstract!Evaluate, Evaluate
    <2>4. CASE p.kind \in AllowlistKinds
      BY <1>1, <1>4, <1>6, <2>4, GateAssumption DEF Abstract!Evaluate, Evaluate
    <2> QED
      BY <2>1, <2>2, <2>3, <2>4 DEF Proposal, Kinds
  <1> QED
    BY <1>5, <1>6

LEMMA StepRefines ==
    ASSUME Inductive, [Next]_vars
    PROVE  \/ Abstract!Attach \/ Abstract!Submit \/ Abstract!Record
           \/ Abstract!Rescope \/ Abstract!Retire \/ contract' = contract
  <1>1. ASSUME contract' # contract
        PROVE  \E p \in Procs : Decide(p)
    BY <1>1, ZenonT(60) DEF Next, vars, BeginAttach, BeginCheck, BeginPropose, BeginAmend, BeginClose, Begin,
                Enter, EnterFails, Leave, WriteFails, Crash
  <1>2. SUFFICES ASSUME NEW p \in Procs, Decide(p), contract' # contract
                 PROVE  \/ Abstract!Attach \/ Abstract!Submit \/ Abstract!Record
                        \/ Abstract!Rescope \/ Abstract!Retire
    BY <1>1
  <1>3. At(p, "decide") /\ ~Refuse(p) /\ job[p].current = contract
    BY <1>2, CurrentIsFile DEF Decide, Attach, Submit, Propose, Amend, Close, Refuse
  <1>4. CASE Attach(p)
    BY <1>3, <1>4, SameGate DEF Attach, Write, Abstract!Attach, Inductive, Wants, At
  <1>5. CASE Submit(p)
    <2>1. PICK submission \in Submissions, evidence \in [Criteria -> SUBSET Items] :
              /\ evidence = MergeEvidence(contract.envelope.evidence, submission)
              /\ contract.envelope # None
              /\ contract' = [contract EXCEPT
                    !.envelope.evidence = evidence,
                    !.envelope.state = IF Complete(evidence) THEN "CONTRACT_SATISFIED" ELSE "OPEN"]
      BY <1>3, <1>5, SubmitWrites
    <2>2. /\ evidence = Abstract!MergeEvidence(contract.envelope.evidence, submission)
          /\ Abstract!Complete(evidence) <=> Complete(evidence)
      BY <2>1, SameGate
    <2>3. contract' = [contract EXCEPT
             !.envelope.evidence = Abstract!MergeEvidence(contract.envelope.evidence, submission),
             !.envelope.state =
                 IF Abstract!Complete(Abstract!MergeEvidence(contract.envelope.evidence, submission))
                 THEN "CONTRACT_SATISFIED" ELSE "OPEN"]
      BY <2>1, <2>2
    <2>4. Abstract!Submit
      BY <2>1, <2>3 DEF Abstract!Submit
    <2> QED
      BY <2>4
  <1>6. CASE Propose(p)
    <2>1. PICK d \in Proposals, a \in Answers :
              /\ contract.envelope # None
              /\ a = Evaluate(contract.envelope, d)
              /\ a.kind = "GOVERNANCE"
              /\ Entries(contract.envelope, d.id) = {}
              /\ contract' = [contract EXCEPT !.envelope.ledger =
                                 Append(@, [proposal |-> d, outcome |-> a])]
      BY <1>2, <1>3, <1>6, ProposeAnswers, ZenonT(60)
    <2>2. \A i \in DOMAIN contract.envelope.ledger : contract.envelope.ledger[i].proposal.id # d.id
      BY <2>1 DEF Entries
    <2> QED
      BY <2>1, <2>2, SameEvaluate, EnvelopeAssumption DEF Abstract!Record
  <1>7. CASE Amend(p)
    BY <1>3, <1>7 DEF Amend, Write, Abstract!Rescope, Inductive, Wants, At
  <1>8. CASE Close(p)
    BY <1>3, <1>8 DEF Close, Write, Abstract!Retire
  <1> QED
    BY <1>2, <1>4, <1>5, <1>6, <1>7, <1>8 DEF Decide

\* The lock makes every operation atomic, CHECK's copy read outside it included.
THEOREM EnvelopeRefines == Spec => RefinesAbstract
  <1>1. Init => Abstract!AbsInit
    BY SameGate DEF Init, Abstract!AbsInit
  <1>2. Inductive /\ [Next]_vars =>
           [Abstract!Attach \/ Abstract!Submit \/ Abstract!Record
              \/ Abstract!Rescope \/ Abstract!Retire]_contract
    BY StepRefines
  <1> QED
    BY <1>1, <1>2, InductiveInvariant, PTL DEF Spec, RefinesAbstract, Abstract!AbsSpec

=============================================================================
