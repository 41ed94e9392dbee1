CONSTANTS
    Missions = {1, 2}
    config = config
    Files = {config}
    Unregistered = {config}
    MaxClicks = 3
SPECIFICATION FairSpec
CHECK_DEADLOCK FALSE
INVARIANTS TypeOK OneMission RecordsAreTheirOwn FilesAreTheirOwn
PROPERTIES LoaderEnds
