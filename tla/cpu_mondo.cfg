SPECIFICATION FairSpec
CONSTANTS
  c1 = c1
  c2 = c2
  c3 = c3
  Cpus = {c1, c2, c3}
  NWORDS = 2
  QSIZE = 2
  CpuLists <- Lists
  MaxMondos <- Counts
  MayStop = {c3}
  MayFail = {c2}
  QuietStart = TRUE
INVARIANTS TypeOK IntactQueue OncePerTarget
PROPERTIES DoneIsAccepted SendEnds
CHECK_DEADLOCK FALSE
