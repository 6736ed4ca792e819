------------------------- MODULE MCExecutionEnvelope -------------------------
(* ExecutionEnvelope for TLC: two criteria, one numeric and one allowlist    *)
(* kind, envelopes with hard and soft limits, and proposals within, at and   *)
(* beyond what they allow, two of them under one identifier.                 *)
EXTENDS ExecutionEnvelope, TLC

CONSTANTS c1, c2, i1, i2, v1, v2

MCRequired == (c1 :> {i1, i2}) @@ (c2 :> {i1})

Piece(c, items) == [d \in Criteria |-> IF d = c THEN items ELSE {}]
MCSubmissions == {Piece(c1, {i1}), Piece(c1, {i2}), Piece(c2, {i1})}

NoAlternative == [v \in {} |-> NoValue]
Lesser == v2 :> [value |-> v1, requiredFor |-> {c1}]

MCAuthorities ==
    { [worker |-> [max |-> 0, constraint |-> "SOFT"],
       review |-> [allowed |-> {v1}, constraint |-> "SOFT", alternatives |-> Lesser]],
      [worker |-> [max |-> 1, constraint |-> "HARD"],
       review |-> [allowed |-> {}, constraint |-> "HARD", alternatives |-> NoAlternative]] }

Ask(id, kind, amount, minimum, value, necessity, refs) ==
    [id |-> id, kind |-> kind, amount |-> amount, minimum |-> minimum, value |-> value,
     necessity |-> necessity, refs |-> refs, evidence |-> TRUE]

MCProposals ==
    { Ask("a", "worker", 2, 1, v1, "required", {c1}),
      Ask("a", "worker", 1, 0, v1, "optional", {c2}),
      Ask("b", "review", 1, 0, v2, "optional", {c1, c2}),
      Ask("d", "post_satisfaction_work", 1, 0, v1, "optional", {c1}) }

ProcSymmetry == Permutations(Procs)

=============================================================================
