SPECIFICATION SuiteSpec
CONSTANTS
    h1 = h1
    h2 = h2
    h3 = h3
    Null = Null
    \* Runner
    Types = {r1, r2}
    Unknown = Unknown
    MaxDepth = 2
    \* Cli
    Letters = {a}
    Space = Space
    Quote = Quote
    MaxLen = 3
    Cap = 2
    MaxArgs = 2
    \* PubSubTiny
    Names = {na, nb}
    Dynamic = {d1, d2}
    Static = {static1}
    MaxTopics = 3
    \* Pm
    Modes = {m}
    Prios = {1, 2}
    Funcs = {f}
    PmMaxLen = 3
    NoItem = NoItem
    \* Button
    Params <- ParamSet
    Default <- DefaultParam
    Bits = 4
    ClockMod = 5
    CountMod = 2
    Deltas = {2}
    MaxAge = 3
INVARIANTS BrokerExact PublishReachesMembers CliFaithful CalledByPriority OnlyCurrentPrepared CodecsRoundTrip
PROPERTIES ButtonFaithful
CHECK_DEADLOCK FALSE
