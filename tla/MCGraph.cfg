SPECIFICATION GraphSpec
CHECK_DEADLOCK FALSE
CONSTANTS
    Pids <- MCPids
    p1 = p1
    p2 = p2
    PromotionWindow = 1
    DrainTime = 1
    Times <- MCTimes
    Lateness = 1
    MaxEvents = 4
    NameClasses = {"mcp", "other"}
    FoundByExec = {{}, {"BinarySeed"}}
SYMMETRY MCSymmetry
INVARIANTS
    GraphTypeOK
    ConfirmationIsEarned
PROPERTIES
    CandidatesExpire
    IdentityIsStable
    DrainsForItsTime
