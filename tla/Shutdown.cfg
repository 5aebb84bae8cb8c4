SPECIFICATION Spec
CONSTANTS
    t1 = t1
    t2 = t2
    t3 = t3
    NoTask = NoTask
    Tasks = {t1, t2}
    Rank <- MCRank2
    Workers = {w1, w2}
    MaxWorkers = 1
    Keys = {k}
    KeyOf <- MCKeyOf
    CacheUsers = {}
    NotCoroutine = {}
    Stubborn = {t1}
    Calls = {"cancel_task", "get_task_future", "stop"}
    MaxStarts = 2
SYMMETRY MCSymmetry
INVARIANTS
    WithinMaxWorkers
    StopLeavesNothing
PROPERTIES
    StoppedPoolStartsNothing
    StopReleasesWaiters
CHECK_DEADLOCK FALSE
