CONSTANTS
    d1 = d1
    d2 = d2
    Datasets = {d1, d2}
    HasMl <- MCHasMl
    Habitat <- MCHabitat
    Filters <- MCFilters
    Extents <- MCExtents
    p1 = p1
    p2 = p2
    Places = {p1, p2}
    None = None
    MaxHandlers = 2
    MaxTimers = 2
    MaxAsked = 2
SYMMETRY Symmetry
SPECIFICATION Spec
INVARIANTS TypeOK SwitchTellsOverlay ChartsCountTable StrayNeedsHurry LabelOfItsPopup
PROPERTIES ChartsLeaveByLockedMove
