CONSTANTS
    e1 = e1
    e2 = e2
    e3 = e3
    e4 = e4
    Entries = {e1, e2, e3, e4}
    PageSize = 2
    Starts = {"timer", "admin"}
    MaxRuns = 2
    MaxTroubles = 2
SPECIFICATION FairSpec
CHECK_DEADLOCK FALSE
INVARIANTS TypeOK SuccessMeansSaved NearlyAllSaved
PROPERTIES TimesGoForward RunningEnds
