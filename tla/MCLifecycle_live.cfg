SPECIFICATION FairSpec
CONSTANTS
    Procs = {p1, p2}
    Contracts = {c1, c2}
    Budgets = {b1, b2}
    NoContract = NoContract
    NoBudget = NoBudget
    Free = Free
    Stale = Stale
    MaxAudits = 3
    MaxFaults = 1
PROPERTIES
    PendingSettles
    CommandsEnd
