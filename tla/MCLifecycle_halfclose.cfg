SPECIFICATION RetrySpec
CONSTANTS
    Procs = {p1}
    Contracts = {c1}
    Budgets = {b1}
    NoContract = NoContract
    NoBudget = NoBudget
    Free = Free
    Stale = Stale
    MaxAudits = 4
    MaxFaults = 1
PROPERTIES
    HalfCloseReconciles
