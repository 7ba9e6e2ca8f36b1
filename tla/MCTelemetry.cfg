SPECIFICATION Spec
CHECK_DEADLOCK FALSE
CONSTANTS
    Objects = {"fs", "tls", "content"}
    Cpus = {c1, c2}
    RingCapacity = 1
    MaxFired = 3
    MaxEvictions = 1
    DegradeRatio <- MCDegradeRatio
    CriticalRatio <- MCCriticalRatio
INVARIANTS
    TypeOK
    EventsConserved
    UnsharedStreamsAreContiguous
PROPERTIES
    EverySubmittedEventIngested
    PressureSubsides
    EndsWhenItMust
