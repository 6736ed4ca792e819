SPECIFICATION Spec
CONSTANTS
    c1 = c1
    c2 = c2
    i1 = i1
    i2 = i2
    v1 = v1
    v2 = v2
    Criteria = {c1, c2}
    Undeclared = c0
    Items = {i1, i2}
    Required <- MCRequired
    NumericKinds = {"worker"}
    AllowlistKinds = {"review"}
    Values = {v1, v2}
    NoValue = NoValue
    Procs = {p1, p2}
    Free = Free
    Stale = Stale
    Proposals <- MCProposals
    Submissions <- MCSubmissions
    Authorities <- MCAuthorities
    Scopes = {s1, s2}
    None = None
    MaxFaults = 1
INVARIANTS
    ReplayReturnsRecorded
