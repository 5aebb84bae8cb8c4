SPECIFICATION FairSpec
CONSTANTS
    t1 = t1
    t2 = t2
    t3 = t3
    NoTask = NoTask
    Tasks = {t1, t2}
    Rank <- MCRank2
    Workers = {w1}
    MaxWorkers = 1
    Keys = {k}
    KeyOf <- MCKeyOf
    CacheUsers = {}
    NotCoroutine = {}
    Stubborn = {}
    Calls = {"cancel_task"}
    MaxStarts = 1
PROPERTY
    EveryTaskEnds
CHECK_DEADLOCK FALSE
