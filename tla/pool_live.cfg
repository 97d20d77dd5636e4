SPECIFICATION FairSpec
CONSTANTS
  NumWorkers = 1
  Client = {c1, c2}
  NoWorker = NoWorker
  MaxJobs = 1
  Replies = {"ok", "broken"}
  MaxGen = 2
  MaxCalls = 1
  MaxNested = 1
  MaxCrashes = 0
  MaxRemovals = 0
  MayDestroy = TRUE
CHECK_DEADLOCK FALSE
PROPERTIES
  ExecReturns
  DestroyReturns
