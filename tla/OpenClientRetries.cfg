\* main_client.exe: the reconnect of REQ-COM-030.
CONSTANTS
    DatasetSize = 1
    INT_MAX = 3
    GarbageSizes = {0, 1}
    Tokens = {"FUEL_SYS_SECRET"}
    Conns = {c1, c2}
    Capacity = 2
    Clients = {p1}
    INVALID_SOCKET = INVALID_SOCKET
    Unconnected = Unconnected
    TOKEN = "FUEL_SYS_SECRET"
    MAX_RECONNECT_ATTEMPTS = 3
    NumPackets = 2
    InitialFuel = 3
    BurnRate = 1
    OtherWsaRefs = 0
    ClientFaults = {"startup", "connect"}
    Frames <- GoodFrames
    MaxFrames = 1
    MaxListens = 1
SPECIFICATION Spec
PROPERTY GivesUpOnlyAfterRetries
