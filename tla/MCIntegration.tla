---------------------------- MODULE MCIntegration ----------------------------
(***************************************************************************)
(* Integration for TLC: two shells, a package installed globally and one     *)
(* in a directory of its own, and a newer major that no update installs.    *)
(***************************************************************************)
EXTENDS Integration, TLC

CONSTANTS g, l

V(major, minor) == [major |-> major, minor |-> minor]
MCVersions == {V(1, 0), V(1, 1), V(2, 0)}
MCPublished == {V(1, 0), V(2, 0)}
Package(version, guard) == [version |-> version, guard |-> guard]
MCPackages ==
    {(g :> Package(V(1, 0), TRUE)) @@ (l :> Package(NoVersion, FALSE)),
     (g :> Package(NoVersion, FALSE)) @@ (l :> Package(V(1, 0), FALSE)),
     (g :> Package(V(1, 0), TRUE)) @@ (l :> Package(V(1, 1), TRUE))}

ProcSymmetry == Permutations(Procs)
=============================================================================
