SPECIFICATION Spec
CONSTANTS
    r1 = r1
    r2 = r2
    r3 = r3
    r4 = r4
    r5 = r5
    NoEntry = NoEntry
    Requests = {r1, r2, r3, r4, r5}
    FunctionOf <- MCFunctionOf
    ArgsOf <- MCArgsOf
    Unencodable = {"x"}
    Uuids = {u1, u2}
    Adapters = {"memory"}
    KeyFns = {"normal"}
    Callers = {c1}
    MaxSize = 2
    Ttls = {9}
    Forever = 9
    MaxTime = 2
    Asked <- MCAsked
    MaxDepth <- MCMaxDepth
INVARIANT
    OwnResult
CHECK_DEADLOCK FALSE
