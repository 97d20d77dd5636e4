SPECIFICATION FairSpec
CONSTANTS
  N = 2
  Plain = {}
  Rpc = {1}
  Http = {2}
  Metrics = {}
  Health = {}
  Reload = {}
  MayFail = {}
  Outside = {"rpc"}
  MaxOutside = 1
CHECK_DEADLOCK FALSE
PROPERTIES
  RpcStopEnds
