CONSTANTS
    a1 = a1
    a2 = a2
    t1 = t1
    t2 = t2
    None = None
    Actors = {a1}
    Threads = {t1, t2}
    NumCores = 1
    NumMsgs = 4
    Priority <- OneCore
    Senders = {t1, t2}
    Unsetters = {}
    NullSends = FALSE
    MaxSem = 4
SPECIFICATION FairSpec
INVARIANT NoMessageLost
PROPERTY MessagesTakenAndDeinit
CHECK_DEADLOCK FALSE
