SPECIFICATION FairSpec
CONSTANTS
    r1 = r1
    r2 = r2
    r3 = r3
    r4 = r4
    r5 = r5
    NoEntry = NoEntry
    Requests = {r1, r2, r3, r4, r5}
    FunctionOf <- MCFunctionOf
    ArgsOf <- MCArgsOf
    Unencodable = {"x"}
    Uuids = {u1, u2}
    Adapters = {"memory", "redis"}
    KeyFns = {"default", "normal", "task"}
    Callers = {c1}
    MaxSize = 2
    Ttls = {0, 9}
    Forever = 9
    MaxTime = 1
    Asked <- MCAsked
    MaxDepth <- MCMaxDepth
INVARIANTS
    TypeOK
    KeysTellCallsApart
    MemoryBounded
PROPERTIES
    LeastRecentlyUsedGoes
    MappingsOutliveValues
    DisabledStoresNothing
    StaleMappingsGo
CHECK_DEADLOCK FALSE
