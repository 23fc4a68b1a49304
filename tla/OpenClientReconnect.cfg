\* A process that holds Winsock open: main really reconnects.
CONSTANTS
    DatasetSize = 1
    INT_MAX = 3
    GarbageSizes = {0, 1}
    Tokens = {"FUEL_SYS_SECRET"}
    Conns = {c1, c2}
    Capacity = 1
    Clients = {p1}
    INVALID_SOCKET = INVALID_SOCKET
    Unconnected = Unconnected
    TOKEN = "FUEL_SYS_SECRET"
    MAX_RECONNECT_ATTEMPTS = 1
    NumPackets = 2
    InitialFuel = 3
    BurnRate = 1
    OtherWsaRefs = 2
    ClientFaults = {"startup", "connect", "crash"}
    Frames <- GoodFrames
    MaxFrames = 2
    MaxListens = 1
SPECIFICATION FairSpec
INVARIANTS
    SocketOwned
PROPERTIES
    EndsWithoutServer
