CONSTANTS
    Viewers = {v1, v2}
    MaxSeq = 2
    Limit = 1
    Oversized = {}
    MaxSessions = 2
    MaxToggles = 3
    MaxDrops = 1
    MaxFailures = 1
    MayForget = TRUE
    None = None
SPECIFICATION FairSpec
INVARIANTS DemandFollowsVisibility SurfacesShowPrefix HeldEventsAreReleased
 
CHECK_DEADLOCK FALSE
