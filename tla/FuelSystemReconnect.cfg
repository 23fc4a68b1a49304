\* A client process that holds Winsock open, so that main really reconnects.
CONSTANTS
    DatasetSize = 1
    INT_MAX = 3
    GarbageSizes = {0, 1}
    Tokens = {"FUEL_SYS_SECRET"}
    Conns = {c1, c2}
    Capacity = 2
    Clients = {p1}
    INVALID_SOCKET = INVALID_SOCKET
    Unconnected = Unconnected
    TOKEN = "FUEL_SYS_SECRET"
    AUTH_TOKEN = "FUEL_SYS_SECRET"
    FUEL_ALERT_THRESHOLD = 2
    MAX_RECONNECT_ATTEMPTS = 1
    NumPackets = 2
    InitialFuel = 2
    BurnRate = 1
    OtherWsaRefs = 2
    ClientFaults = {"connect"}
    Faults = {"break"}
SPECIFICATION Spec
INVARIANTS
    LoggedAtMostOnce
