---------------------------- MODULE ExecutionGate ----------------------------
(***************************************************************************)
(* The execution decision gate: a pure function of a contract's execution  *)
(* envelope and a material decision proposed to it.                        *)
(*                                                                         *)
(* An envelope has its acceptance criteria (Required), the authority it     *)
(* declares by kind of decision, the satisfaction record and the ledger.   *)
(* Kinds of the same form are told apart only by the authority they are     *)
(* compared with.  Identifiers are opaque, empty strings are not modelled. *)
(***************************************************************************)
EXTENDS Integers, Sequences, FiniteSets

CONSTANTS
    Criteria,        \* acceptance criteria the envelope declares
    Undeclared,      \* a criterion reference it does not declare
    Items,           \* evidence strings
    Required,        \* the evidence each criterion requires
    NumericKinds,    \* delegated_agent, concurrent_worker
    AllowlistKinds,  \* reasoning_escalation .. external_service
    Values,          \* values an allowlist kind may request
    NoValue          \* replacement_value when there is none

ASSUME GateAssumption ==
    /\ Undeclared \notin Criteria
    /\ Criteria # {}
    /\ Required \in [Criteria -> (SUBSET Items) \ {{}}]
    /\ NoValue \notin Values
    /\ "scope_expansion" \notin NumericKinds \cup AllowlistKinds
    /\ "post_satisfaction_work" \notin NumericKinds \cup AllowlistKinds
    /\ NumericKinds \cap AllowlistKinds = {}

Kinds == NumericKinds \cup AllowlistKinds \cup {"scope_expansion", "post_satisfaction_work"}

\* A proposal carries the fields of every kind; minimum 0 is minimum_required
\* left out, evidence whether any necessity evidence is given.
Proposal == [id : STRING, kind : Kinds, amount : Nat, minimum : Nat, value : Values,
             necessity : {"optional", "required"},
             refs : SUBSET (Criteria \cup {Undeclared}), evidence : BOOLEAN]

Outcome(verdict, amount, value) ==
    [kind |-> "GOVERNANCE", verdict |-> verdict, amount |-> amount, value |-> value]
Governance(verdict) == Outcome(verdict, 0, NoValue)
NonMaterial == [Governance("NONE") EXCEPT !.kind = "NON_MATERIAL"]
InvalidProposal == [Governance("NONE") EXCEPT !.kind = "INVALID_PROPOSAL"]

-----------------------------------------------------------------------------
(* Satisfaction.                                                           *)

Covered(evidence, c) == Required[c] \subseteq evidence[c]
Complete(evidence) == \A c \in Criteria : Covered(evidence, c)
MergeEvidence(left, right) == [c \in Criteria |-> left[c] \cup right[c]]

-----------------------------------------------------------------------------
(* Structural validity, checked before anything else.                      *)

\* Only a required decision must name its minimum.
ValidNumeric(p) ==
    /\ p.amount > 0
    /\ p.necessity = "required" => p.minimum > 0 /\ p.minimum <= p.amount

ValidAllowlist(authority) ==
    \A v \in DOMAIN authority.alternatives :
        LET alternative == authority.alternatives[v]
        IN  /\ alternative.value \in authority.allowed
            /\ alternative.requiredFor # {}
            /\ alternative.requiredFor \subseteq Criteria

ValidProposal(env, p) ==
    /\ p.refs # {}
    /\ p.evidence
    /\ p.refs \subseteq Criteria
    /\ p.kind \in NumericKinds => ValidNumeric(p)
    /\ p.kind \in AllowlistKinds => ValidAllowlist(env.authority[p.kind])

-----------------------------------------------------------------------------
(* Verdicts.                                                               *)

Refused(authority) == Governance(IF authority.constraint = "HARD" THEN "BLOCK" ELSE "DEFER")

\* A reduction to what was asked for.
EvaluateNumeric_Unreduced(p, authority) ==
    IF p.necessity = "required" /\ p.minimum <= authority.max
    THEN Outcome("REDUCE", p.amount, NoValue) ELSE Governance("ESCALATE")

EvaluateNumeric(p, authority) ==
    CASE p.amount <= authority.max -> Governance("APPROVE")
      [] p.amount > authority.max /\ p.necessity = "required" ->
            IF p.minimum <= authority.max THEN Outcome("REDUCE", p.minimum, NoValue)
                                          ELSE Governance("ESCALATE")
      [] OTHER -> IF authority.max > 0 THEN Outcome("REDUCE", authority.max, NoValue)
                                       ELSE Refused(authority)

\* A declared alternative, for a criterion cited and not satisfied yet.
Replaces(env, p, authority) ==
    /\ p.necessity = "required" \/ authority.constraint = "SOFT"
    /\ p.value \in DOMAIN authority.alternatives
    /\ \E c \in authority.alternatives[p.value].requiredFor \cap p.refs :
          ~Covered(env.evidence, c)

EvaluateAllowlist(env, p, authority) ==
    IF p.value \in authority.allowed THEN Governance("APPROVE")
    ELSE IF Replaces(env, p, authority)
    THEN Outcome("REPLACE", 0, authority.alternatives[p.value].value)
    ELSE IF p.necessity = "required" THEN Governance("ESCALATE")
    ELSE Refused(authority)

\* The post-satisfaction guard comes before materiality.
Evaluate(env, p) ==
    IF ~ValidProposal(env, p) THEN InvalidProposal
    ELSE IF env.state = "CONTRACT_SATISFIED" THEN Governance("BLOCK")
    ELSE CASE p.kind = "scope_expansion" -> NonMaterial
           [] p.kind = "post_satisfaction_work" -> InvalidProposal
           [] p.kind \in NumericKinds -> EvaluateNumeric(p, env.authority[p.kind])
           [] p.kind \in AllowlistKinds -> EvaluateAllowlist(env, p, env.authority[p.kind])

-----------------------------------------------------------------------------
(* What an outcome lets the executor do.                                   *)

\* The most of an amount, and the values, an outcome for p authorises.
GrantedAmount(p, outcome) ==
    CASE outcome.verdict = "APPROVE" /\ p.kind \in NumericKinds -> p.amount
      [] outcome.verdict = "REDUCE" -> outcome.amount
      [] OTHER -> 0

GrantedValues(p, outcome) ==
    CASE outcome.verdict = "APPROVE" /\ p.kind \in AllowlistKinds -> {p.value}
      [] outcome.verdict = "REPLACE" -> {outcome.value}
      [] OTHER -> {}

\* An outcome grants nothing the envelope does not declare for that very kind.
WithinAuthority(authority, p, outcome) ==
    /\ GrantedAmount(p, outcome) > 0 =>
          p.kind \in NumericKinds /\ GrantedAmount(p, outcome) <= authority[p.kind].max
    /\ GrantedValues(p, outcome) # {} =>
          /\ p.kind \in AllowlistKinds
          /\ GrantedValues(p, outcome) \subseteq authority[p.kind].allowed

=============================================================================
