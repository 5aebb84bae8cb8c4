SPECIFICATION Spec
CONSTANTS
    t1 = t1
    t2 = t2
    t3 = t3
    NoTask = NoTask
    Tasks = {t1, t2, t3}
    Rank <- MCRank3
    Workers = {w1, w2}
    MaxWorkers = 2
    Keys = {k}
    KeyOf <- MCKeyOf
    CacheUsers = {t1, t2}
    NotCoroutine = {}
    Stubborn = {t1}
    Calls = {"cancel_task", "get_task_future"}
    MaxStarts = 1
SYMMETRY MCSymmetry
INVARIANTS
    TypeOK
    FutureAgrees
    FromCacheTruthful
PROPERTIES
    CancelledIsNeverStarted
    PriorityOrder
    ImplementsLifecycle
CHECK_DEADLOCK FALSE
