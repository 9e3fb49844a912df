CONSTANTS
    a1 = a1
    a2 = a2
    t1 = t1
    t2 = t2
    None = None
    Actors = {a1, a2}
    Threads = {t1, t2}
    NumCores = 1
    NumMsgs = 2
    Priority <- OneCore
    Senders <- AllAgents
    Unsetters = {t1}
    NullSends = TRUE
    MaxSem = 2
SPECIFICATION Spec
INVARIANTS TypeOK MessageOwnedOnce NoActorForgotten
PROPERTIES ImplementsMessagePassing
CHECK_DEADLOCK FALSE
