SPECIFICATION SuiteSpec
CONSTANTS
    j1 = j1
    j2 = j2
    j3 = j3
    w1 = w1
    w2 = w2
    NoJob = NoJob
    Jobs = {j1, j2, j3}
    Workers = {w1, w2}
    MaxConcurrent = 2
    Attrs <- Resized
    CreateMayFail = TRUE
    MaxSem = 4
    e1 = e1
    e2 = e2
    t1 = t1
    Canceled = Canceled
    Nothing = Nothing
    Events = {e1, e2}
    Callers = {t1}
    Calls = {"post", "defer", "repeat", "postUnique", "repeatUnique", "cancel", "stop"}
    MaxLen = 2
    NumTimers = 1
    Mod = 4
    Delays = {1, 2}
    OneLock = TRUE
INVARIANTS JobPoolExact AoQueueExact
PROPERTIES QueuedJobRuns TimedEventNotLost AoCallsReturn
CHECK_DEADLOCK FALSE
