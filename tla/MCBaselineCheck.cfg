SPECIFICATION Spec
CONSTANTS
    Paths <- MCPaths
    PathChars <- MCPathChars
    NoLimit = NoLimit
    NoEvidence = NoEvidence
    Profiles <- MCProfiles
    NoProfile = NoProfile
    RuleIds <- MCRuleIds
    BuiltinRules <- MCBuiltin
    RulePatterns <- MCRulePatterns
    NoOverrides = NoOverrides
    Literals <- MCLiterals
    NotAsked = NotAsked
    NoChange = NoChange
    Objects <- MCObjects
    Absent = Absent
    NotRead = NotRead
    Kind <- MCKind
    Mode <- MCMode
    Bytes <- MCBytes
    LineCount <- MCLineCount
    Binary <- MCBinary
    InitialHead <- MCHead
    InitialTrees <- MCTrees
    Contracts <- MCContracts
    OverrideFiles <- MCOverrides
    Requests <- MCRequests
    MaxAttempts = 2
    MaxCommits = 2
    MaxMoves = 2
INVARIANTS
    TypeOK
    BaselineIsOneMoment
    KeptChangesJudged
    InheritedExcluded
    OwnHistoryAccepted
