SPECIFICATION Spec
CONSTANTS
  NumWorkers = 1
  Client = {c1, c2}
  NoWorker = NoWorker
  MaxJobs = 1
  Replies = {"ok", "jobError", "broken", "stop"}
  MaxGen = 2
  MaxCalls = 1
  MaxNested = 2
  MaxCrashes = 0
  MaxRemovals = 1
  MayDestroy = FALSE
SYMMETRY Symmetry
CHECK_DEADLOCK FALSE
INVARIANTS
  TypeOK
  OneOwner
  MaxJobsRespected
