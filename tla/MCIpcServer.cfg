SPECIFICATION Spec
CHECK_DEADLOCK FALSE
CONSTANTS
    Topics = {"alert", "events"}
    Overflow <- MCOverflow
    HistoryCapacity = 2
    ChannelCapacity = 1
    Limits = {1, 3}
    MaxPublished = 3
INVARIANTS
    TypeOK
    NothingIsMissedSilently
    HistoryMeetsChannel
    PagesSkipNothing
