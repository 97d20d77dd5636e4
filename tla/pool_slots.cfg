SPECIFICATION Spec
CONSTANTS
  NumWorkers = 2
  Client = {c1, c2}
  NoWorker = NoWorker
  MaxJobs = 0
  Replies = {"ok", "broken"}
  MaxGen = 2
  MaxCalls = 1
  MaxNested = 1
  MaxCrashes = 1
  MaxRemovals = 0
  MayDestroy = FALSE
SYMMETRY Symmetry
CHECK_DEADLOCK FALSE
INVARIANTS
  ProcessBound
  NumDeadDebt
  PoolDeathReported
PROPERTIES
  ImplementsRotation
