SPECIFICATION SuiteSpec
CONSTANTS
    NoValue = NoValue
    k1 = k1
    k2 = k2
    v1 = v1
    v2 = v2
    Images = {"v1", "v2"}
    NBlocks = 2
    MaxFaults = 2
    IdSpace = 9
    MaxMetrics = 2
    Reports = {d1}
    NoReport = NoReport
    FsMaxFaults = 3
    NvsKeys = {"j", "k"}
    NvsValues = {1, 2}
    NoBlob = 0
    FdsKeys = {"j", "k"}
    FdsValues = {1, 2}
    MaxOps = 2
    MaxRecords = 3
    NoRecord = NoRecord
    Counters = {c1, c2}
    Hi = Hi
    Lo = Lo
    Pct = Pct
    Samples = {1, 2}
    EntrySize = 2
    HeaderSize = 1
    MaxCount = 2
    Tags = {l1, l2, l3}
    MaxTags = 2
    TypeMax = 2
    Backends = {b1}
    MaxBackends = 2
    Cap = 1
    Null = Null
    Wrap = 8
    Inputs <- InputSet
    Args = {0, 1, 2, 3, 4}
    MaxSize = 3
    QueueCap = 4
    QueueRange = 8
    Producers = {p1, p2}
    Consumer = c
    First = p1
    MetaSize = 1
    Sizes = {0, 1, 3}
    BufSize = 2
    QueueIds = 3
    NoOne = NoOne
CHECK_DEADLOCK FALSE
INVARIANT OnePartitionWhateverFails
