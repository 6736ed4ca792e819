SPECIFICATION FairSpec
CONSTANTS
    Repos = {r1}
    Grants = {g1}
    OneShot = {g1}
    Procs = {p1, p2}
    Free = Free
    Left = Left
    NoRepo = NoRepo
    NoGrant = NoGrant
    GrantLimit = 1
    MaxAudit = 2
    MaxRevision = 1
    MaxFaults = 1
PROPERTIES
    CallsEnd
CHECK_DEADLOCK FALSE
