SPECIFICATION MCSpec
CONSTANTS
  Dirs <- MCDirs
  Names = {a}
  Patterned = {a}
  Ignored = {}
  Recursive = TRUE
  Poll = {p1, p2}
  Cap = 1
  MaxEdits = 2
  MaxErrors = 1
  Fields <- MCFields
  Uploads <- MCUploads
  MaxLevel = 2
  Metric = {m1, m2}
  FullName = {n1, n2}
  Declarer = {d1, d2}
  MaxValue = 1
  NoCollector = none
CHECK_DEADLOCK FALSE
INVARIANTS
  PartTypes NotedIsLoaded UploadsHandled FormTree EndIsReported AckedIsExported Wired
PROPERTIES
  ChangeReloads StopEnds
