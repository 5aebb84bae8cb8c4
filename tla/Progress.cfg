SPECIFICATION FairSpec
CONSTANTS
    t1 = t1
    t2 = t2
    t3 = t3
    NoTask = NoTask
    Tasks = {t1, t2, t3}
    Rank <- MCRank3
    Workers = {w1}
    MaxWorkers = 1
    Keys = {k}
    KeyOf <- MCKeyOf
    CacheUsers = {t1, t2}
    NotCoroutine = {t3}
    Stubborn = {}
    Calls = {"get_task_future", "stop"}
    MaxStarts = 1
PROPERTIES
    EveryTaskEnds
    EveryWaiterWakes
    StopReturns
CHECK_DEADLOCK FALSE
