SPECIFICATION Spec
CONSTANTS
    Procs = {p1, p2, p3, p4}
    Unprobeable = {p4}
    NoLock = NoLock
SYMMETRY Symmetry
CHECK_DEADLOCK FALSE
INVARIANTS
    TypeOK
    Exclusive
    RecoveredMeansGone
PROPERTIES
    LiveLockKept
    RemovalRecorded
