\* main_client.exe against a server that does as it likes, every fault.
CONSTANTS
    DatasetSize = 2
    INT_MAX = 3
    GarbageSizes = {0, 1, 4}
    Tokens = {"FUEL_SYS_SECRET"}
    Conns = {c1}
    Capacity = 2
    Clients = {p1}
    INVALID_SOCKET = INVALID_SOCKET
    Unconnected = Unconnected
    TOKEN = "FUEL_SYS_SECRET"
    MAX_RECONNECT_ATTEMPTS = 3
    NumPackets = 2
    InitialFuel = 3
    BurnRate = 1
    OtherWsaRefs = 0
    ClientFaults = {"startup", "connect", "crash"}
    Frames <- ServerFrames
    MaxFrames = 3
    MaxListens = 2
SPECIFICATION Spec
INVARIANTS
    TypeOK
    FlightRecorded
    SendsOnlyWhenAccepted
    DatasetComplete
    
