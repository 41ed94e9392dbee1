CONSTANTS
    r1 = r1
    r2 = r2
    Ids = {r1, r2}
    Titles = {"old", "new"}
    PageSize = 2
    MaxRefreshes = 2
    MaxHarvests = 1
    MaxChanges = 1
    MaxRequests = 1
    Orphans = TRUE
    NewByDefault = TRUE
    Ops = {"add", "retitle", "count-fails", "finish-fails", "overlap", "harvest", "toggle", "delete", "check"}
SPECIFICATION Spec
SYMMETRY Symmetry
CHECK_DEADLOCK FALSE
INVARIANTS TypeOK EndsSynced
