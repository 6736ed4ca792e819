SPECIFICATION GuardSpec
CONSTANTS
    Procs = {p1}
    Contracts = {c1, c2}
    b1 = b1
    b2 = b2
    Budgets = {b1, b2}
    NoContract = NoContract
    NoBudget = NoBudget
    Free = Free
    Stale = Stale
    MaxAudits = 4
    MaxFaults = 0
    Paths <- MCPaths
    PathChars <- MCPathChars
    SensitiveAs <- MCSensitive
    OwnPaths = {"own"}
    Names <- MCNames
    Meaning <- MCMeaning
    PathLike <- MCPathLike
    NoPath = NoPath
    Outside = Outside
    r1 = r1
    i1 = i1
    v1 = v1
    Criteria = {r1}
    Undeclared = r0
    Items = {i1}
    Required <- MCRequired
    NumericKinds = {"worker"}
    AllowlistKinds = {}
    Values = {v1}
    NoValue = NoValue
    Rules <- MCRules
    Terms <- MCTerms
    Requests <- MCRequests
    NoLimit = NoLimit
    NoGrant = NoGrant
    NotRead = NotRead
    UserPaths = {"src"}
    InitialDisks <- MCDisks
    MaxRegistryWrites = 2
    MaxEdits = 1
    MaxMoves = 4
    Envelopes <- MCEnvelopes
    Inputs <- MCInputs
    Events <- MCEvents
SYMMETRY ContractSymmetry
INVARIANTS
    GuardTypeOK
    AllowedUnderOneContract
    VerifiedWasSettled
