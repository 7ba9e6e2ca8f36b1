SPECIFICATION Spec
CONSTANTS
    LoopWindow = 3
    LoopCooldown = 5
    ConnectThreshold = 2
    FileThreshold = 2
    PromptThreshold = 2
    LoopCapacity = 2
    AlertDedup = 2
    MaxMerged = 2
    MaxThrottleEntries = 2
    Scenarios <- MCScenarios
    Lag = 1
    DryRun = TRUE
INVARIANTS
    TypeOK
    AlertsAreApart
    HeldBackIsListed
PROPERTY
    LoopAlertsRest
CHECK_DEADLOCK FALSE
