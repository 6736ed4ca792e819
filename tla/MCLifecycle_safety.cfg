SPECIFICATION Spec
CONSTANTS
    Procs = {p1, p2}
    Contracts = {c1, c2}
    Budgets = {b1, b2}
    NoContract = NoContract
    NoBudget = NoBudget
    Free = Free
    Stale = Stale
    MaxAudits = 5
    MaxFaults = 2
SYMMETRY Symmetry
INVARIANTS
    TypeOK
    StateLockExcludes
    AtMostOnePending
    LedgerExplainsFiles
    PointerCoherent
PROPERTIES
    WriteAhead
    AuditHistoryKept
    GovernedArtifactsKept
    RefinesAbstract
