CONSTANTS
    roads = roads
    roads_v2 = roads_v2
    Names = {roads, roads_v2}
    Ours = roads
    Safe <- MCSafe
    MaxDrops = 2
    MaxClicks = 2
    MaxFaults = 1
SPECIFICATION FairSpec
CHECK_DEADLOCK FALSE
INVARIANTS TypeOK OneShapefile ServedApart PageRowAndDataAgree
PROPERTIES ChainEnds
