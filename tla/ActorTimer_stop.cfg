CONSTANTS
    NumTimers = 2
    Delays = {1, 2}
    TicksPerMs = 1
    MaxTime = 3
    StopWhen = {"idle", "send", "relock"}
SPECIFICATION Spec
INVARIANT TraversalEnds
CHECK_DEADLOCK FALSE
