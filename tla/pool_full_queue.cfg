SPECIFICATION FairSpec
CONSTANTS
  NumWorkers = 1
  Client = {c1}
  NoWorker = NoWorker
  MaxJobs = 0
  Replies = {"ok"}
  MaxGen = 2
  MaxCalls = 1
  MaxNested = 1
  MaxCrashes = 1
  MaxRemovals = 0
  MayDestroy = FALSE
CHECK_DEADLOCK FALSE
PROPERTIES
  ExecReturns
