CONSTANTS
    a1 = a1
    a2 = a2
    i1 = i1
    Actors = {a1, a2}
    Items = {i1}
    Ops = {"check", "api-harvest"}
    MaxSessions = 1
    MaxLost = 0
    MaxRaised = 0
SPECIFICATION Spec
CHECK_DEADLOCK FALSE
INVARIANTS ReadyMeansIdle
