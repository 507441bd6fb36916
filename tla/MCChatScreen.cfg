CONSTANTS
    Users = {me}
    Me = me
    Limit = 1
    MaxRequests = 3
    Fetches = {f1}

SPECIFICATION MCSpec

INVARIANTS
    ScreenTypeOK
    ScreenShowsOneSession

    
CHECK_DEADLOCK FALSE
