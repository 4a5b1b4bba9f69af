SPECIFICATION Spec
CONSTANTS
  NGUESTS = 3
  NMBLOCKS = 3
  NVCPUS = 5
  NSTRANDS = 6
  NSTRANDS_PER_CORE = 2
  MAX_LDC_CHANNELS = 2
  MAX_INOS = 6
  NMEMSEGS = 4
  strand_active = {0, 1, 2, 3}
  Hvmds <- MCHvmds
  BootHvmd = 1
  Careful = TRUE
  Patient = TRUE
  MaxCmds = 3
  Exits = {0, 1, 2}
INVARIANTS TypeOK ConfigMatchesMd NoAssert PendingIntact CommitAlone
PROPERTIES StopNotified ResetRuns
CHECK_DEADLOCK FALSE
