SPECIFICATION HistorySpec
CONSTANTS
  Terminals = {t1, t2}
  Sessions = {s1, s2}
  Wide = Wide
  Narrow = Narrow
  Sizes <- SomeSizes
  UnitSize = Unit
  Outputs <- SomeOutputs
  LineLimits = {2, 3}
  Multiplier = 1
  MaxBytes = 4
  MaxTotalBytes = 5
  MaxEvents = 3
  MaxCalls = 3
SYMMETRY Symmetry
INVARIANTS
  BooksBalance
  SnapshotsAreSuffixes
  ReplayFollowsResizes
CHECK_DEADLOCK FALSE
