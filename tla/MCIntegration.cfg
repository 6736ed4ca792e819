SPECIFICATION Spec
CONSTANTS
    Procs = {p1, p2}
    g = g
    l = l
    Roots = {g, l}
    Global = g
    Versions <- MCVersions
    InitialPackages <- MCPackages
    InitialPublished <- MCPublished
    NoVersion = NoVersion
    NoRoot = NoRoot
    Missing = Missing
    Torn = Torn
    MaxEdits = 2
SYMMETRY ProcSymmetry
INVARIANTS
    TornMeansAbandoned
PROPERTIES
    SuccessStands
