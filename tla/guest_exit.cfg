SPECIFICATION FairSpec
CONSTANTS
  NVCPUS = 3
  Up = {0, 1, 2}
  Failed = {}
  MayFail = {2}
  Hcalls = {"exit", "sir"}
  ZeusOps = {"start", "stop"}
  Kinds = {"ordinary", "control", "last"}
INVARIANTS TypeOK OneExit ExitAsserts NoAbort
PROPERTIES ExitCompletes ResetCompletes
CHECK_DEADLOCK FALSE
