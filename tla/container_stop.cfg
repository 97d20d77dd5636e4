SPECIFICATION FairSpec
CONSTANTS
  N = 3
  Plain = {}
  Rpc = {1}
  Http = {2}
  Metrics = {}
  Health = {}
  Reload = {3}
  MayFail = {1, 2, 3}
  Outside = {"signal", "rpc"}
  MaxOutside = 1
CHECK_DEADLOCK FALSE
INVARIANTS
  TypeOK
  StoppingHasStopper
PROPERTIES
  StopIsFinal
  SignalEnds
  FailureEnds
