------------------------------ MODULE BudgetRules ------------------------------
(***************************************************************************)
(* The judgement of CHECK: from a contract's budget and the set of changed  *)
(* items to PASS, REPAIR or HUMAN_REVIEW, with the stack policy a contract  *)
(* selects.                                                                *)
(*                                                                         *)
(* A changed item is [path, type, added, removed, binary]; the code keeps   *)
(* one item for each path.  A budget is [allow, deny, maxFiles, maxLines,   *)
(* newFiles, profile, disabled].  Messages, reason codes and their order    *)
(* are left out.                                                           *)
(***************************************************************************)
EXTENDS PathPatterns, FiniteSets, FiniteSetsExt

CONSTANTS
    NoLimit,        \* a numeric limit that is null
    NoEvidence,     \* no provenance evidence for a numeric limit
    Profiles,       \* stack profiles
    NoProfile,      \* stack_profile null
    RuleIds,        \* identifiers of stack rules
    BuiltinRules,   \* the rules of each profile
    RulePatterns,   \* the target patterns of each rule
    NoOverrides     \* no stack policy override file

ASSUME RulesAssumption ==
    /\ NoLimit \notin Int
    /\ NoProfile \notin Profiles
    /\ BuiltinRules \in [Profiles -> SUBSET RuleIds]

ChangeTypes == {"added", "modified", "deleted", "renamed"}
Decisions == {"PASS", "REPAIR", "HUMAN_REVIEW"}

---------------------------------------------------------------------------
(* Numeric limits.  A limit counts as a ceiling only when its provenance is  *)
(* verified; commands pass no verifier, so there evidence is NoEvidence.     *)

\* Evidence binds one exact value of one limit of one contract.
SupportsLimit(evidence, limit, expected) ==
    /\ evidence # NoEvidence
    /\ evidence.limit = limit /\ evidence.value = expected /\ evidence.bound
    /\ \/ /\ evidence.classification = "HARD"
          /\ evidence.issuer \in {"human", "trusted-policy"}
          /\ evidence.intent = "exact-ceiling"
       \/ /\ evidence.classification = "SOFT"
          /\ evidence.issuer \in {"planner", "agent", "preset", "advisor"}
          /\ evidence.intent = "recommendation"

classifyNumericProvenance(limit, expected, evidence) ==
    IF expected = NoLimit THEN "NOT_APPLICABLE"
    ELSE IF SupportsLimit(evidence, limit, expected) THEN evidence.classification
    ELSE "UNRESOLVED"

Exceeds(observed, expected) == expected # NoLimit /\ observed > expected

ChangedLines(items) ==
    MapThenSumSet(LAMBDA i : IF i.binary THEN 0 ELSE i.added + i.removed, items)

\* The limits that are exceeded, each with what is known of its provenance.
ExceededLimits(budget, items, evidence) ==
    LET observed == [max_files |-> Cardinality(items), max_changed_lines |-> ChangedLines(items)]
        expected == [max_files |-> budget.maxFiles, max_changed_lines |-> budget.maxLines]
    IN {[limit |-> l, provenance |-> classifyNumericProvenance(l, expected[l], evidence)] :
            l \in {k \in DOMAIN expected : Exceeds(observed[k], expected[k])}}

---------------------------------------------------------------------------
(* Stack policy *)

\* The override file of the repository for the selected profile.
RepositoryDisabled(overrides) == IF overrides = NoOverrides THEN {} ELSE overrides.disable
RepositoryAdded(overrides) == IF overrides = NoOverrides THEN {} ELSE overrides.added
OverridesWellFormed(overrides) == IF overrides = NoOverrides THEN TRUE ELSE overrides.wellFormed
AllRules(profile, overrides) == BuiltinRules[profile] \cup RepositoryAdded(overrides)

\* An added rule may not take a builtin's identifier, and both disable lists
\* may name only rules that exist.
PolicyValid(profile, overrides, disabled) ==
    IF profile = NoProfile THEN TRUE
    ELSE /\ OverridesWellFormed(overrides)
         /\ RepositoryAdded(overrides) \cap BuiltinRules[profile] = {}
         /\ RepositoryDisabled(overrides) \subseteq AllRules(profile, overrides)
         /\ disabled \subseteq AllRules(profile, overrides)

resolveStackPolicy(profile, overrides, disabled) ==
    IF profile = NoProfile THEN {}
    ELSE AllRules(profile, overrides) \ (RepositoryDisabled(overrides) \cup disabled)

\* START refuses disabled rules without a profile.
PolicyConfigurationValid(budget, overrides) ==
    /\ budget.profile = NoProfile => budget.disabled = {}
    /\ PolicyValid(budget.profile, overrides, budget.disabled)

---------------------------------------------------------------------------
(* The judgement *)

Violations(budget, rules, items, evidence) ==
    {<<"deny_paths", i.path>> : i \in {j \in items : MatchedDeny(budget, j.path)}}
    \cup {<<"allow_paths", i.path>> :
              i \in {j \in items : ~MatchedDeny(budget, j.path) /\ ~MatchedAllow(budget, j.path)}}
    \cup {<<"allow_new_files", i.path>> :
              i \in {j \in items : ~budget.newFiles /\ j.type = "added"}}
    \cup {<<l.limit>> : l \in {k \in ExceededLimits(budget, items, evidence) : k.provenance = "HARD"}}
    \cup UNION {{<<"stack_profile_rule", i.path, r>> :
                     r \in {s \in rules : matchPathPattern(i.path, RulePatterns[s])}} : i \in items}

\* A limit that is exceeded and of unknown provenance is for a human to judge.
MaterialUnresolved(budget, items, evidence) ==
    \E l \in ExceededLimits(budget, items, evidence) : l.provenance = "UNRESOLVED"

evaluateBudgetCheck(budget, rules, items, evidence) ==
    IF MaterialUnresolved(budget, items, evidence) THEN "HUMAN_REVIEW"
    ELSE IF Violations(budget, rules, items, evidence) # {} THEN "REPAIR"
    ELSE "PASS"
=============================================================================
