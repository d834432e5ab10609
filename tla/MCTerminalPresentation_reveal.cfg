CONSTANTS
    Viewers = {v1}
    MaxSeq = 2
    Limit = 1
    Oversized = {}
    MaxSessions = 1
    MaxToggles = 3
    MaxDrops = 0
    MaxFailures = 0
    MayForget = FALSE
    None = None
SPECIFICATION Spec
INVARIANTS RevealShowsHiddenOutput
CHECK_DEADLOCK FALSE
