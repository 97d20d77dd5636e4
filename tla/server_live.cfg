SPECIFICATION MCSpec
CONSTANTS
  Resetter = {r1}
  Client = {c1}
  Clients = {c1, c2}
  Relays = {relay1}
  NilPool = NilPool
  MaxPools = 3
  MaxStarts = 1
  MaxResets = 1
  MaxFails = 1
  MaxAttach = 0
  MayFail = FALSE
  MayStop = FALSE
CHECK_DEADLOCK FALSE
INVARIANTS
  StopLeavesNone
PROPERTIES
  ResetsEnd
