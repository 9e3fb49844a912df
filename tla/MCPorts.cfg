SPECIFICATION SuiteSpec
CONSTANTS
    None = None
    NBlocks = 5
    SeqMod = 4
    MaxFaults = 3
    Bufs = {b1, b2}
    BufSize = 2
    MaxPackets = 2
    NoBuf = NoBuf
    Services = {s1, s2}
    Capacity = 2
    MaxHandle = 3
    Conns = {1}
    NoHandler = NoHandler
    BleHandles = {1}
    NrChrs = 1
    MemCap = 7
    ChrSize = 2
    UuidSize = 1
    HandlerSize = 1
    BleMaxEvents = 2
    Mtus = {23}
    CallbackCapacity = 2
    WifiMaxEvents = 3
    Bauds = {9600, 115200}
    Frames = {"8N1", "odd"}
    KnownFrames = {"8N1"}
    DefaultFrame = "8N1"
    I2cTasks = {t1, t2}
    I2cMaxDevice = 2
    MaxLeaks = 2
    Nobody = Nobody
    SpiMaxDevices = 3
    SpiMaxAdds = 4
    PwmTimers = {"t", "u"}
    PwmChannels = {1, 2}
    PwmPins = {1, 2}
    PwmDuties = {0}
    NoTimer = "none"
    NoPin = 0
    AppTmrMax = 2
    TmrWidth = 4
    TmrThousand = 3
    TmrTimeouts = {1, 2, 6}
    TmrMaxLost = 1
INVARIANTS  RequestReachesItsHandler LinkKnown FileInOrder MgmtBuffersReturn DriversMatchHardware
PROPERTIES AdvStartReturns ReceiveReturns
CHECK_DEADLOCK FALSE
