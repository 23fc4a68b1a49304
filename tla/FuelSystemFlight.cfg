\* The flight that is cut off.
CONSTANTS
    DatasetSize = 2
    INT_MAX = 3
    GarbageSizes = {0, 1}
    Tokens = {"FUEL_SYS_SECRET"}
    Conns = {c1}
    Capacity = 2
    Clients = {p1}
    INVALID_SOCKET = INVALID_SOCKET
    Unconnected = Unconnected
    TOKEN = "FUEL_SYS_SECRET"
    AUTH_TOKEN = "FUEL_SYS_SECRET"
    FUEL_ALERT_THRESHOLD = 2
    MAX_RECONNECT_ATTEMPTS = 1
    NumPackets = 2
    InitialFuel = 2
    BurnRate = 1
    OtherWsaRefs = 0
    ClientFaults = {}
    Faults = {"break"}
SPECIFICATION Spec
PROPERTY DisconnectedOnlyAfterFlight
