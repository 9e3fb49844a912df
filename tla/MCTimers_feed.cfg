SPECIFICATION SuiteSpec
CONSTANTS
    once = once
    again = again
    Width = 6
    Narrow = 3
    Params <- RetryParams
    Melodies <- MelodySet
    MaxPlays = 2
    Wdts = {"a", "b"}
    Period <- WdtPeriods
    BaseMin = 3
    WdtWidth = 3
    MaxLag = 1
    Hour = 6
    Minute = 2
    BucketWidth = 12
    Cap = 2
    Rates = {1, 3}
    MaxTime = 7
CHECK_DEADLOCK FALSE
INVARIANT NeverFalseAlarm
