CONSTANTS
    r1 = r1
    r2 = r2
    r3 = r3
    Ids = {r1, r2, r3}
    Titles = {"old"}
    PageSize = 2
    MaxRefreshes = 2
    MaxHarvests = 1
    MaxChanges = 1
    MaxRequests = 1
    Orphans = TRUE
    NewByDefault = TRUE
    Ops = {"abort", "remove", "list-fails", "harvest", "unlink"}
SPECIFICATION Spec
SYMMETRY Symmetry
CHECK_DEADLOCK FALSE
INVARIANTS LocalOwned
PROPERTIES Promise
