SPECIFICATION Spec
CONSTANTS
    Timers = {x}
    Repeating = {}
    SlotBits = 2
    NumWheels = 3
    TimeBits = 6
    IntBits = 6
    Timeouts = {0, 1, 6, 21, 31}
    Elapsed = {1}
    StartRunning = FALSE
    MaxOvertakes = 1
INVARIANT OnTime
