SPECIFICATION LeavingSpec
CONSTANTS
    e1 = e1
    e2 = e2
    e3 = e3
    g1 = g1
    g2 = g2
    a1 = a1
    a2 = a2
    a3 = a3
    b = b
    NoGroup = NoGroup
    Nobody = Nobody
    Subscribers = {s1, s2}
    Groups = {g1, g2}
    Events = {e1, e2, e3}
    Calls = {a1, a2, a3, b}
    Topic <- MCTopic
    Group <- MCGroup
    DataGroup <- MCDataGroup
    Event <- MCEvent
    Earlier <- MCEarlier
    Abortable = {}
    Cap = 1
    ProcessedLimit = 2
    Aging = {e1}
PROPERTY
    EveryMemberHears
