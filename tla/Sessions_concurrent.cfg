CONSTANTS
    a1 = a1
    a2 = a2
    i1 = i1
    i2 = i2
    Actors = {a1, a2}
    Items = {i1, i2}
    Ops = {"refresh", "harvest", "abort-refresh", "abort-harvest"}
    MaxSessions = 1
    MaxLost = 1
    MaxRaised = 1
SPECIFICATION Spec
SYMMETRY Symmetry
CHECK_DEADLOCK FALSE
INVARIANTS WorkSettledBeforeEnd NeverResurrected NeverOvercounts
PROPERTIES AbortNotForgotten
