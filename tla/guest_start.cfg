SPECIFICATION FairSpec
CONSTANTS
  NVCPUS = 3
  Up = {}
  Failed = {0}
  MayFail = {}
  Hcalls = {"start", "stop"}
  ZeusOps = {"start", "panic"}
  Kinds = {"ordinary"}
INVARIANTS BootAlone
CHECK_DEADLOCK FALSE
