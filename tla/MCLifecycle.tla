----------------------------- MODULE MCLifecycle -----------------------------
(* Lifecycle for TLC: the interchangeable constants and their symmetry.     *)
EXTENDS Lifecycle, TLC

Symmetry == Permutations(Procs) \cup Permutations(Contracts) \cup Permutations(Budgets)

=============================================================================
