SPECIFICATION Spec
CONSTANTS
  Resetter = {r1}
  Client = {}
  Relays = {relay1}
  NilPool = NilPool
  MaxPools = 3
  MaxStarts = 1
  MaxResets = 1
  MaxFails = 0
  MaxAttach = 0
  MayFail = FALSE
  MayStop = TRUE
SYMMETRY Symmetry
CHECK_DEADLOCK FALSE
INVARIANTS
  NoPanic
