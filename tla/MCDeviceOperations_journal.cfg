CONSTANTS
    Commands = {c1, c2}
    Plans = {p1, p2}
    p1 = p1
    p2 = p2
    Checkouts = {k1}
    Callers = {"api", "sessions"}
    MaxReceipts = 1
    MaxDeliveries = 3
    MaxCrashes = 1
    MaxFailures = 1
    MaxReconciles = 1
    MaxUses = 1
    None = None
SPECIFICATION MCSpec
INVARIANTS EffectsOnce SuccessIsDurable RecordsMatchTrees
PROPERTIES OutcomesAreFinal CleanupLosesNothingScanned QueueMoves
CHECK_DEADLOCK FALSE
