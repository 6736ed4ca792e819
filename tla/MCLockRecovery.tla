---------------------------- MODULE MCLockRecovery ----------------------------
(* LockRecovery for TLC: processes of the same user are interchangeable.      *)
EXTENDS LockRecovery, TLC

Symmetry == Permutations(Procs \ Unprobeable)

=============================================================================
