CONSTANTS
    a1 = a1
    a2 = a2
    Actors = {a1, a2}
    Ops = {"start", "stop", "edit", "delete"}
    MaxReads = 3
    MaxTasks = 3
    MaxFailures = 2
SPECIFICATION FairSpec
CHECK_DEADLOCK FALSE
INVARIANTS TypeOK RunsOnce StartedIsKnown
PROPERTIES FinishedIsFinal QueuedFinishes
