SPECIFICATION Spec
CONSTANTS
  MaxQueries = 1
  OutLimit = 1
  OutCap = 1
  NetCap = 1
  MaxLosses = 2
  MaxSalt = 1
  NumFloor = 1
INVARIANTS TimersAndCounts ServerAgrees
PROPERTIES RpcSafety EventuallyQuiet ImplementsRpc
CHECK_DEADLOCK FALSE
