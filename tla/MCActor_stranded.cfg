CONSTANTS
    a1 = a1
    a2 = a2
    t1 = t1
    t2 = t2
    None = None
    Actors = {a1, a2}
    Threads = {t1}
    NumCores = 1
    NumMsgs = 4
    Priority <- OneCore
    Senders = {t1}
    Unsetters = {}
    NullSends = FALSE
    MaxSem = 4
SPECIFICATION Spec
INVARIANT NoMessageStranded
CHECK_DEADLOCK FALSE
