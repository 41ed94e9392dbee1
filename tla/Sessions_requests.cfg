CONSTANTS
    a1 = a1
    i1 = i1
    i2 = i2
    Actors = {a1}
    Items = {i1, i2}
    Ops = {"schedule", "refresh", "abort-refresh", "harvest", "abort-harvest", "harvest-selected", "check", "reset", "api-refresh", "api-harvest", "api-abort-refresh", "api-abort-harvest", "api-check", "api-edit", "check-task"}
    MaxSessions = 1
    MaxLost = 1
    MaxRaised = 1
SPECIFICATION Spec
SYMMETRY Symmetry
CHECK_DEADLOCK FALSE
INVARIANTS TypeOK VerdictSound
