CONSTANTS
    a1 = a1
    a2 = a2
    i1 = i1
    i2 = i2
    Actors = {a1, a2}
    Items = {i1, i2}
    Ops = {"api-harvest"}
    MaxSessions = 2
    MaxLost = 0
    MaxRaised = 1
SPECIFICATION FairSpec
CHECK_DEADLOCK FALSE
PROPERTIES BusyEnds OnGoingEnds
