CONSTANTS
    a1 = a1
    i1 = i1
    Actors = {a1}
    Items = {i1}
    Ops = {"api-harvest", "abort-harvest"}
    MaxSessions = 1
    MaxLost = 0
    MaxRaised = 0
SPECIFICATION FairSpec
CHECK_DEADLOCK FALSE
PROPERTIES AbortEnds
