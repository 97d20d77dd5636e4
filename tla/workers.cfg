SPECIFICATION MCSpec
CONSTANTS
  Piped = {p1}
  Socketed = {s1, s2}
  Stranger = x
  MaxSpawns = 2
  MaxWrites = 3
  Limited = {w1}
  Horizon = 3
  MaxExecs = 2
  MaxFrames = 3
CHECK_DEADLOCK FALSE
INVARIANTS
  PartTypes SpawnOutcome OutputKept PickedWasQuiet ReportedOnce JobIsolated
PROPERTIES
  SocketSpawnReturns OutputHeard OverdueIsRemoved
