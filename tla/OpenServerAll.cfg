\* One connection, every kind of frame, well formed or not, every fault.
CONSTANTS
    DatasetSize = 1
    Conns = {c1}
    Capacity = 2
    AUTH_TOKEN = "FUEL_SYS_SECRET"
    FUEL_ALERT_THRESHOLD = 2
    INT_MAX = 3
    GarbageSizes = {0, 1, 4}
    Tokens = {"FUEL_SYS_SECRET", "wrong"}
    Faults = {"startup", "accept", "break"}
    Frames <- EveryFrame
    MaxFrames = 2
SPECIFICATION Spec
INVARIANTS
    TypeOK
    NoInvalidTransition
    HandlersFit
