SPECIFICATION FairSpec
CONSTANTS
    Tasks = {t1, t2}
    NoTask = NoTask
    MaxStarts = 3
    NotJson = {2}
    MaxBlocks = 3
    MaxLines = 2
INVARIANTS
    TypeOK
    EventsAreBlocks
PROPERTIES
    StopSettles
CHECK_DEADLOCK FALSE
