SPECIFICATION Spec
CONSTANTS
    Repos = {r1, r2}
    Grants = {g1, g2}
    OneShot = {g1}
    Procs = {p1, p2}
    Free = Free
    Left = Left
    NoRepo = NoRepo
    NoGrant = NoGrant
    GrantLimit = 1
    MaxAudit = 3
    MaxRevision = 1
    MaxFaults = 1
INVARIANTS
    TypeOK
    AcceptedOnRecord
    SnapshotValid
    GrantsLocated
PROPERTIES
    FreshWhenRecorded
    RetainedLockFreezes
    RefinesAbstract
SYMMETRY Symmetric
CHECK_DEADLOCK FALSE
