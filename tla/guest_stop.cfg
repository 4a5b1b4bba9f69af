SPECIFICATION FairSpec
CONSTANTS
  NVCPUS = 3
  Up = {0, 1, 2}
  Failed = {}
  MayFail = {}
  Hcalls = {"stop"}
  ZeusOps = {"start", "stop"}
  Kinds = {"ordinary"}
INVARIANTS StoppedIsInert
PROPERTIES StopIsAsked StopsSettle
CHECK_DEADLOCK FALSE
