SPECIFICATION HostSpec
CHECK_DEADLOCK FALSE
CONSTANTS
    p0 = p0
    p1 = p1
    p2 = p2
    Pids <- MCPids
    Init = p0
    PromotionWindow = 1
    DrainTime = 1
    Times <- MCTimes
    Lateness = 0
    MaxEvents = 6
    NameClasses = {"other"}
    FoundByExec = {{}, {"BinarySeed"}, {"ArgvHint"}}
    ReuseDelay = 1
    ThreadsRecycled = FALSE
SYMMETRY MCSymmetry
INVARIANTS
    AttributionIsInherited
    MembersStay
