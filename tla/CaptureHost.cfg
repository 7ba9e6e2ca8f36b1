SPECIFICATION CaptureHostSpec
CHECK_DEADLOCK FALSE
CONSTANTS
    Pids = {p1, p2}
    First = p1
    Fds = {0, 3}
    StdFds = {0}
    Channels = {"stdio"}
    NoChannel = "none"
    CaptureTime = 1
    WhitelistCapacity = 3
    MaxTime = 2
    MaxCalls = 4
INVARIANTS
    CaptureTypeOK
    MirrorFollowed
    NothingOvercaptured
    CaptureKept
