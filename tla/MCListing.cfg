CONSTANTS
    MaxRows = 3
    Limit = 1
    Slots = {s1, s2}

SYMMETRY MCSymmetry

SPECIFICATION Spec

INVARIANTS
    PagesDescend
    WalkIsComplete
    ShowsLatestSearch
CHECK_DEADLOCK FALSE
