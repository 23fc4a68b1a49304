\* One long session of well-formed frames, small buffers, every fault.
CONSTANTS
    DatasetSize = 2
    INT_MAX = 3
    GarbageSizes = {0, 1}
    Tokens = {"FUEL_SYS_SECRET", "wrong"}
    Conns = {c1}
    Capacity = 1
    AUTH_TOKEN = "FUEL_SYS_SECRET"
    FUEL_ALERT_THRESHOLD = 2
    Faults = {"startup", "accept", "break"}
    Frames <- WellFormedFrames
    MaxFrames = 4
SPECIFICATION FairSpec
INVARIANTS
    AlertFollowsReading
    ServedOnlyAfterToken
    ReceivedFaithful
    RepliesWellFramed
    AllReceivedLogged
PROPERTY HandlerEnds
