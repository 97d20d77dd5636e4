SPECIFICATION Spec
CONSTANTS
  Resetter = {r1, r2}
  Client = {c1}
  Relays = {relay1, relay2}
  NilPool = NilPool
  MaxPools = 4
  MaxStarts = 1
  MaxResets = 1
  MaxFails = 1
  MaxAttach = 0
  MayFail = FALSE
  MayStop = FALSE
SYMMETRY Symmetry
CHECK_DEADLOCK FALSE
INVARIANTS
  TypeOK
  NoPanic
  ActiveAndWatched
  PoolsAccounted
