------------------------- MODULE MCAuthorityRegistry -------------------------
(* AuthorityRegistry for TLC.                                                *)
EXTENDS AuthorityRegistry, TLC

Symmetric == Permutations(Procs) \cup Permutations(Repos)

=============================================================================
