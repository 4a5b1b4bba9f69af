SPECIFICATION FairSpec
CONSTANTS
  NVCPUS = 2
  Up = {0, 1}
  Failed = {}
  MayFail = {}
  Hcalls = {"exit", "stop"}
  ZeusOps = {}
  Kinds = {"ordinary"}
PROPERTIES ExitCompletes
CHECK_DEADLOCK FALSE
