SPECIFICATION MCSpec
CONSTANTS
  NumWorkers = 1
  Client = {c1}
  NoWorker = NoWorker
  MaxJobs = 0
  Replies = {"ok", "broken"}
  MaxGen = 2
  MaxCalls = 2
  MaxNested = 1
  MaxCrashes = 1
  MaxRemovals = 2
  MayDestroy = FALSE
CHECK_DEADLOCK FALSE
INVARIANTS
  OutOfService
  SurvivorsAreLate
