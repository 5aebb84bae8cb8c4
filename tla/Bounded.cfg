SPECIFICATION Spec
CONSTANTS
    t1 = t1
    t2 = t2
    t3 = t3
    t4 = t4
    c1 = c1
    c2 = c2
    Nobody = Nobody
    Tasks = {t1, t2, t3, t4}
    Rank <- MCRank
    Workers = {w1, w2}
    Cancellers = {c1}
    Target <- MCTarget
    MaxSizes = {0, 1}
    PollTimeouts = {FALSE, TRUE}
INVARIANTS
    TypeOK
    LocksNeverContended
    NothingLost
    MarksAreSpent
PROPERTIES
    CancelledIsNotTaken
    EveryAddReturns
CHECK_DEADLOCK FALSE
