SPECIFICATION Spec
CONSTANTS
    Pids = {1, 2, 3}
    Fds = {3, 4}
    Peers = {"a", "b"}
    Ssls = {"ssl"}
    Workspace <- MCWorkspace
    Sensitive <- MCSensitive
    Links <- MCLinks
    Relinked <- MCRelinked
    Missing <- MCMissing
    CallsTogether <- MCCallsTogether
    CacheCapacity = 2
    ProcessCapacity = 2
    HoldTime = 2
    FdCapacity = 2
    EndpointCapacity = 1
    AssocCapacity = 2
    MaxTrouble = 1
INVARIANTS
    TypeOK
    PathsLeadThere
    FullEndpointsAreReal
    ConnectedStreamsAreAttributed
CHECK_DEADLOCK FALSE
