SPECIFICATION Spec
CONSTANTS
    t1 = t1
    t2 = t2
    t3 = t3
    t4 = t4
    c1 = c1
    c2 = c2
    Nobody = Nobody
    Tasks = {t1, t2, t3}
    Rank <- MCRank
    Workers = {w1}
    Cancellers = {c1}
    Target <- MCTarget
    MaxSizes = {1}
    PollTimeouts = {TRUE}
PROPERTY
    EveryCancelReturns
CHECK_DEADLOCK FALSE
